---- MODULE Spec2Model ----
(***************************************************************************)
(* Model of the drone-delivery simulation and decision loop:               *)
(*   src/src/environment/{obstacles,weather,drone,city}.py                 *)
(*   src/src/ai/{logic_engine,q_learning,hybrid_controller}.py             *)
(*                                                                         *)
(* Number representation.                                                  *)
(*  - Horizontal coordinates are floats in the code (wind drift is added   *)
(*    to the unit move).  They are kept here in fixed point, HalfCell      *)
(*    units per grid cell; int(x) of the code is x \div HalfCell.          *)
(*  - battery is a float percentage in the code.  It is kept here as the   *)
(*    remaining charge in mAh, so that battery% = 100*battery /            *)
(*    BATTERY_CAPACITY and every energy cost is an integer.  A comparison  *)
(*    "battery <= p" of the code is BatteryLE(battery, p).                 *)
(*  - rewards are kept multiplied by RewardScale, which makes the time     *)
(*    bonus and the battery bonus integers.                                *)
(*  - wind_speed (km/h) ranges over WindLevels; one weather tick moves it  *)
(*    to a neighbouring level (the code adds uniform(-2, 2)).              *)
(*    wind_direction is drawn afresh on every tick among the four compass  *)
(*    points (the code keeps it and adds uniform(-10, 10) degrees).        *)
(*  - Drone.speed, heading, total_distance, flight_time, the logger and    *)
(*    the mission counter mission_id (incremented by reset, never read by  *)
(*    the pipeline) are not modelled.                                      *)
(***************************************************************************)
EXTENDS Integers, Sequences, FiniteSets, TLC

(***************************************************************************)
(* Bounds: sizes scaled down from src/src/utils/config.py so that every    *)
(* terminal condition is reachable in a few ticks.  The order              *)
(* MAX_STEPS_PER_EPISODE < PAYLOAD_SPOILAGE_WARNING < PAYLOAD_MAX_TIME of  *)
(* the configuration (1000 < 1200 < 1800) is kept.                         *)
(***************************************************************************)
GRID_SIZE == 3
MAX_ALTITUDE == 4
BATTERY_CAPACITY == 10
CHARGING_RATE == 1
MAX_STEPS_PER_EPISODE == 3
PAYLOAD_SPOILAGE_WARNING == 4
PAYLOAD_MAX_TIME == 5
\* step calls a driver makes outside a running mission (before the first
\* reset, or after a step has returned done)
MaxMisuse == 2
ObstacleRadius == 1

(***************************************************************************)
(* Program constants (src/src/utils/config.py).                            *)
(***************************************************************************)
CELL_SIZE == 100
ENERGY_PER_KM == 50
ENERGY_PER_ALTITUDE == 10
HOVER_ENERGY == 5
MAX_WIND_SPEED == 40
EXTREME_WIND_SPEED == 50
STORM_DAMAGE_THRESHOLD == 2
REWARD_DELIVERY_SUCCESS == 1000
REWARD_FAST_DELIVERY_BONUS == 100
REWARD_BATTERY_EFFICIENT == 50
REWARD_COLLISION == -500
REWARD_BATTERY_DEPLETED == -300
REWARD_NO_FLY_INTERCEPTION == -800
REWARD_STORM_CRASH == -600
REWARD_PAYLOAD_SPOILED == -400
REWARD_TIME_PENALTY == -1
REWARD_CHARGING == -50
MIN_BATTERY_EMERGENCY == 5
MIN_BATTERY_RETURN == 20
SAFETY_MAX_ALTITUDE_M == 200
SAFETY_MIN_ALTITUDE_M == 10
ALTITUDE_STEP == 20
\* get_wind_effect halves the wind vector ("* 0.5"): at MAX_WIND_SPEED the
\* drift is half a cell, which is the resolution of the coordinates.
HalfCell == 2

\* Q-values and epsilon are kept in units of 1/QScale
QScale == 1000

FORBIDDEN_WEATHER == {"storm", "heavy_rain", "thunderstorm"}

\* ACTIONS of config.py (ACTIONS is a reserved word of TLA+)
Actions ==
  <<"MOVE_NORTH", "MOVE_SOUTH", "MOVE_EAST", "MOVE_WEST",
    "MOVE_UP", "MOVE_DOWN", "HOVER", "CHARGE">>

Lateral == {"MOVE_NORTH", "MOVE_SOUTH", "MOVE_EAST", "MOVE_WEST"}

Range(s) == {s[i] : i \in DOMAIN s}

Abs(n) == IF n < 0 THEN -n ELSE n

Max(a, b) == IF a >= b THEN a ELSE b

Min(a, b) == IF a <= b THEN a ELSE b

RewardScale == MAX_STEPS_PER_EPISODE * BATTERY_CAPACITY

\* "battery <= pct" on the percentage of the code
BatteryLE(battery, pct) == 100 * battery <= pct * BATTERY_CAPACITY

\* "battery < pct"
BatteryLT(battery, pct) == 100 * battery < pct * BATTERY_CAPACITY

\* "battery > pct"
BatteryGT(battery, pct) == 100 * battery > pct * BATTERY_CAPACITY

(***************************************************************************)
(* CityObstacles (obstacles.py).  The generated city is one of Cities:     *)
(* layouts _generate_city can produce (a special zone sits on a cell that  *)
(* was EMPTY and gets a small building; a no-fly zone is placed without    *)
(* looking at what it covers, so it may cover a hospital or a building).   *)
(***************************************************************************)
Cells(n) == (0 .. n - 1) \X (0 .. n - 1)

HeightMap(n, blds) ==
  [c \in Cells(n) |-> IF \E b \in blds : b[1] = c[1] /\ b[2] = c[2]
                      THEN (CHOOSE b \in blds : b[1] = c[1] /\ b[2] = c[2])[3]
                      ELSE 0]

\* hospitals (0,0) h1 and (2,0) h1, the second inside the no-fly zone
\* centred (2,0) radius 1 (which covers (1,0), (2,0), (2,1)); lab (2,2) h1;
\* buildings (1,0) h2 and (2,1) h3.
CityA ==
  [grid_size |-> GRID_SIZE,
   height_map |-> HeightMap(GRID_SIZE, {<<0, 0, 2>>, <<2, 0, 2>>, <<2, 2, 2>>,
                                        <<1, 0, 2>>, <<2, 1, 3>>}),
   hospitals |-> {<<0, 0>>, <<2, 0>>},
   labs |-> {<<2, 2>>},
   no_fly_zones |-> {<<2, 0, 1>>}]

\* hospital (0,0) h2 next to the lab (1,1) h2, so that a mission starts
\* within one cell of its target; the no-fly zone centred (2,2) radius 1
\* covers (1,2), (2,1) and (2,2)
CityB ==
  [grid_size |-> GRID_SIZE,
   height_map |-> HeightMap(GRID_SIZE, {<<0, 0, 2>>, <<1, 1, 2>>}),
   hospitals |-> {<<0, 0>>},
   labs |-> {<<1, 1>>},
   no_fly_zones |-> {<<2, 2, 1>>}]

Cities == {CityA, CityB}

is_valid_position(city, x, y) ==
  /\ 0 <= x /\ x < HalfCell * city.grid_size
  /\ 0 <= y /\ y < HalfCell * city.grid_size

get_building_height(city, x, y) ==
  IF is_valid_position(city, x, y)
  THEN city.height_map[<<x \div HalfCell, y \div HalfCell>>]
  ELSE 0

is_collision(city, x, y, altitude) == altitude <= get_building_height(city, x, y)

get_min_safe_altitude(city, x, y) == get_building_height(city, x, y) + 1

\* sqrt((x-cx)^2 + (y-cy)^2) <= radius, squared
is_no_fly_zone(city, x, y) ==
  \E zone \in city.no_fly_zones :
    (x - HalfCell * zone[1]) * (x - HalfCell * zone[1])
      + (y - HalfCell * zone[2]) * (y - HalfCell * zone[2])
      <= (HalfCell * zone[3]) * (HalfCell * zone[3])

\* len(get_obstacles_in_radius(x, y, radius)): the window cells x+dx, y+dy
\* (dx, dy integers) inside the grid that carry a building
get_obstacles_in_radius(city, x, y, radius) ==
  Cardinality({d \in (-radius .. radius) \X (-radius .. radius) :
                 /\ is_valid_position(city, x + HalfCell * d[1], y + HalfCell * d[2])
                 /\ get_building_height(city, x + HalfCell * d[1], y + HalfCell * d[2]) > 0})

(***************************************************************************)
(* WeatherSystem (weather.py).                                             *)
(***************************************************************************)
WindLevels == <<10, 20, 40, 50>>

WindRange(cond) ==
  CASE cond = "clear" -> <<5, 15>>
    [] cond = "cloudy" -> <<10, 20>>
    [] cond = "windy" -> <<25, 40>>
    [] cond = "light_rain" -> <<15, 25>>
    [] cond = "heavy_rain" -> <<30, 45>>
    [] cond = "storm" -> <<45, 60>>
    [] cond = "thunderstorm" -> <<50, 70>>

Conditions ==
  {"clear", "cloudy", "windy", "light_rain", "heavy_rain", "storm", "thunderstorm"}

\* _update_weather_effects: wind_speed = uniform(lo, hi) of the condition
update_weather_effects(cond) ==
  {[condition |-> cond, wind_speed |-> w] :
     w \in {v \in Range(WindLevels) : WindRange(cond)[1] <= v /\ v <= WindRange(cond)[2]}}

\* _change_weather: the targets of the transition table
transitions(cond) ==
  CASE cond = "clear" -> {"clear", "cloudy", "windy"}
    [] cond = "cloudy" -> {"clear", "cloudy", "light_rain", "windy"}
    [] cond = "windy" -> {"clear", "cloudy", "windy", "storm"}
    [] cond = "light_rain" -> {"cloudy", "light_rain", "heavy_rain"}
    [] cond = "heavy_rain" -> {"light_rain", "heavy_rain", "storm"}
    [] cond = "storm" -> {"heavy_rain", "storm", "thunderstorm"}
    [] cond = "thunderstorm" -> {"storm", "thunderstorm", "heavy_rain"}

change_weather(w) == UNION {update_weather_effects(c) : c \in transitions(w.condition)}

\* wind_speed += uniform(-2, 2), clipped to [0, 80]
fluctuate(w) ==
  LET i == CHOOSE k \in DOMAIN WindLevels : WindLevels[k] = w.wind_speed
  IN {[w EXCEPT !.wind_speed = WindLevels[j]] :
        j \in {k \in DOMAIN WindLevels : Abs(k - i) <= 1}}

\* WeatherSystem.update: every weather the tick can produce
weather_update(w) == UNION {fluctuate(v) : v \in {w} \cup change_weather(w)}

\* get_wind_effect: (dx, dy) = wind_speed / MAX_WIND_SPEED * 0.5 * (cos, sin)
\* in HalfCell units, truncated; dir is a unit vector of the compass
WindDirections == {<<1, 0>>, <<-1, 0>>, <<0, 1>>, <<0, -1>>}

get_wind_effect(w, dir) ==
  LET drift == (w.wind_speed * HalfCell) \div (2 * MAX_WIND_SPEED)
  IN <<drift * dir[1], drift * dir[2]>>

is_safe_to_fly(w) ==
  /\ w.condition \notin FORBIDDEN_WEATHER
  /\ ~(w.wind_speed > MAX_WIND_SPEED)

(***************************************************************************)
(* Drone (drone.py).  A drone is a record; position = <<x, y, z>> with x,  *)
(* y in HalfCell units and z an altitude level.                            *)
(***************************************************************************)
NoDrone == [none |-> TRUE]

\* Drone.__init__ / Drone.reset
new_drone(start_position) ==
  [position |-> <<HalfCell * start_position[1], HalfCell * start_position[2], start_position[3]>>,
   battery |-> BATTERY_CAPACITY,
   cargo |-> "None",
   has_package |-> FALSE,
   payload_locked |-> FALSE,
   payload_condition |-> "none",
   time_since_pickup |-> 0,
   is_charging |-> FALSE,
   is_crashed |-> FALSE,
   crash_reason |-> "None",
   steps_in_storm |-> 0]

calculate_movement_energy(d) ==
  LET energy == (CELL_SIZE * ENERGY_PER_KM) \div 1000
  IN IF d.has_package THEN (energy * 12) \div 10 ELSE energy

\* Drone._charge: <<returned value, drone afterwards>>
charge(d) ==
  IF d.battery >= BATTERY_CAPACITY
  THEN [ok |-> FALSE, drone |-> d]
  ELSE LET b == Min(BATTERY_CAPACITY, d.battery + CHARGING_RATE)
       IN [ok |-> TRUE,
           drone |-> [d EXCEPT !.battery = b,
                               !.is_charging = ~(b >= BATTERY_CAPACITY)]]

Delta(action) ==
  CASE action = "MOVE_NORTH" -> <<0, -1, 0>>
    [] action = "MOVE_SOUTH" -> <<0, 1, 0>>
    [] action = "MOVE_EAST" -> <<1, 0, 0>>
    [] action = "MOVE_WEST" -> <<-1, 0, 0>>
    [] action = "MOVE_UP" -> <<0, 0, 1>>
    [] action = "MOVE_DOWN" -> <<0, 0, -1>>
    [] OTHER -> <<0, 0, 0>>

\* energy_cost that charges nothing for a token that is not an action
EnergyCost_known_only(d, action) ==
  CASE action \in Lateral -> calculate_movement_energy(d)
    [] action = "MOVE_UP" -> ENERGY_PER_ALTITUDE
    [] action = "MOVE_DOWN" -> ENERGY_PER_ALTITUDE \div 2
    [] action = "HOVER" -> HOVER_ENERGY
    [] OTHER -> 0

\* energy_cost of Drone.move: HOVER_ENERGY unless a branch of the if chain
\* replaces it
EnergyCost(d, action) ==
  CASE action \in Lateral -> calculate_movement_energy(d)
    [] action = "MOVE_UP" -> ENERGY_PER_ALTITUDE
    [] action = "MOVE_DOWN" -> ENERGY_PER_ALTITUDE \div 2
    [] OTHER -> HOVER_ENERGY

\* drain without the clamp at 0
drain_unclamped(battery, energy_cost) == battery - energy_cost

\* the battery after a move that costs energy_cost
drain(battery, energy_cost) == Max(0, battery - energy_cost)

\* Drone.move: [ok |-> returned value, drone |-> drone afterwards]
move(d, action, wind_effect) ==
  IF d.is_crashed \/ d.is_charging
  THEN [ok |-> FALSE, drone |-> d]
  ELSE IF d.battery <= 0
  THEN [ok |-> FALSE,
        drone |-> [d EXCEPT !.is_crashed = TRUE, !.crash_reason = "battery_depleted"]]
  ELSE IF action = "CHARGE"
  THEN charge(d)
  ELSE LET dx == HalfCell * Delta(action)[1] + wind_effect[1]
           dy == HalfCell * Delta(action)[2] + wind_effect[2]
           dz == Delta(action)[3]
           new_x == Max(0, Min(HalfCell * (GRID_SIZE - 1), d.position[1] + dx))
           new_y == Max(0, Min(HalfCell * (GRID_SIZE - 1), d.position[2] + dy))
           new_z == Max(0, Min(MAX_ALTITUDE - 1, d.position[3] + dz))
       IN [ok |-> TRUE,
           drone |-> [d EXCEPT !.position = <<new_x, new_y, new_z>>,
                               !.battery = drain(d.battery, EnergyCost(d, action))]]

\* update_payload_condition running the clock whether or not cargo is held
update_payload_condition_always(d, time_step) ==
  LET t == d.time_since_pickup + time_step
  IN [d EXCEPT !.time_since_pickup = t,
               !.payload_condition =
                 IF t >= PAYLOAD_MAX_TIME THEN "spoiled"
                 ELSE IF t >= PAYLOAD_SPOILAGE_WARNING THEN "warning"
                 ELSE "fresh"]

\* update_payload_condition spoiling only after the limit is exceeded
update_payload_condition_late(d, time_step) ==
  IF ~d.has_package
  THEN d
  ELSE LET t == d.time_since_pickup + time_step
       IN [d EXCEPT !.time_since_pickup = t,
                    !.payload_condition =
                      IF t > PAYLOAD_MAX_TIME THEN "spoiled"
                      ELSE IF t >= PAYLOAD_SPOILAGE_WARNING THEN "warning"
                      ELSE "fresh"]

\* Drone.update_payload_condition(time_step)
update_payload_condition(d, time_step) ==
  IF ~d.has_package
  THEN d
  ELSE LET t == d.time_since_pickup + time_step
       IN [d EXCEPT !.time_since_pickup = t,
                    !.payload_condition =
                      IF t >= PAYLOAD_MAX_TIME THEN "spoiled"
                      ELSE IF t >= PAYLOAD_SPOILAGE_WARNING THEN "warning"
                      ELSE "fresh"]

is_payload_spoiled(d) == d.payload_condition = "spoiled"

crash(d, reason) == [d EXCEPT !.is_crashed = TRUE, !.crash_reason = reason]

\* pickup_cargo that forgets to engage the lock
pickup_cargo_unlocked(d, cargo_type) ==
  IF d.has_package
  THEN d
  ELSE [d EXCEPT !.cargo = cargo_type,
                 !.has_package = TRUE,
                 !.time_since_pickup = 0,
                 !.payload_condition = "fresh"]

\* Drone.pickup_cargo: the drone afterwards (unchanged when already laden)
pickup_cargo(d, cargo_type) ==
  IF d.has_package
  THEN d
  ELSE [d EXCEPT !.cargo = cargo_type,
                 !.has_package = TRUE,
                 !.payload_locked = TRUE,
                 !.time_since_pickup = 0,
                 !.payload_condition = "fresh"]

\* Drone.deliver_cargo: [delivered |-> the cargo or "None", drone |-> afterwards]
deliver_cargo(d) ==
  IF ~d.has_package
  THEN [delivered |-> "None", drone |-> d]
  ELSE [delivered |-> d.cargo,
        drone |-> [d EXCEPT !.payload_locked = FALSE,
                            !.cargo = "None",
                            !.has_package = FALSE]]

(***************************************************************************)
(* CityEnvironment (city.py).                                              *)
(***************************************************************************)
VARIABLES
  obstacles,          \* the generated city (CityObstacles), fixed after construction
  weather,            \* WeatherSystem: [condition, wind_speed]
  drone,              \* the Drone, NoDrone before the first reset
  start_position,     \* <<x, y, altitude>> in cells, "None" before the first reset
  target_position,
  current_step,
  mission_status,
  total_reward,
  violations,
  collisions,
  interceptions,
  storm_crashes,
  payload_spoilages,
  ret,                \* what the last call of reset/step returned
  overrun             \* the step calls made after a step of this mission returned done

\* the HybridController and the observation it is asked about
VARIABLES
  rules,              \* logic_engine.rules
  obs,                \* the observation passed to choose_action
  q_table,            \* q_agent.q_table
  epsilon,            \* q_agent.epsilon
  decisions_made,
  safety_overrides,
  logic_suggestions,
  decision            \* what the last call of choose_action returned

ctl_vars ==
  <<rules, obs, q_table, epsilon, decisions_made, safety_overrides, logic_suggestions, decision>>

\* the rest of the QLearningAgent and the file its table is saved to
VARIABLES
  episodes_trained,   \* q_agent.episodes_trained
  total_updates,      \* q_agent.total_updates
  file,               \* what is stored under the path given to save and load
  load_ret            \* what the last call of load returned, n counts the calls

agent_vars == <<episodes_trained, total_updates, file, load_ret>>

\* the generator of the process (numpy.random) and the environments built
\* from a seed
VARIABLES
  rng,                \* [seed, n]: the seed last set and the draws made since
  envs                \* the environments built so far, by name

seed_vars == <<rng, envs>>

\* a driver that keeps a record of its calls
VARIABLES
  handed,             \* the action token it handed to its last step call
  learned             \* the transition it handed to its last update call

driver_vars == <<handed, learned>>

env_vars ==
  <<obstacles, weather, drone, start_position, target_position,
    current_step, mission_status, total_reward, violations, collisions,
    interceptions, storm_crashes, payload_spoilages, ret, overrun>>

\* a reward of the configuration, in RewardScale units
R(reward) == reward * RewardScale

\* the keys of the info mapping built at the end of step
FullInfo ==
  {"mission_id", "step", "position", "battery", "distance_to_target",
   "mission_status", "violations", "collisions", "interceptions",
   "storm_crashes", "payload_spoilages", "weather", "payload_condition",
   "time_since_pickup", "crash_reason"}

\* the keys of the info mapping of the two pre-flight returns
ShortInfo == {"mission_status", "reason"}

is_at_target(d, target) ==
  /\ Abs(d.position[1] - HalfCell * target[1]) <= HalfCell
  /\ Abs(d.position[2] - HalfCell * target[2]) <= HalfCell
  /\ Abs(d.position[3] - target[3]) <= 1

\* the running values of one step call after the pre-flight checks
Frame(d) ==
  [drone |-> d, reward |-> 0, done |-> FALSE, status |-> mission_status,
   collisions |-> collisions, interceptions |-> interceptions,
   storm_crashes |-> storm_crashes]

\* city.py 191-205: execute the action
execute_action(f, action, wind_effect) ==
  LET m == move(f.drone, action, wind_effect)
  IN IF ~m.ok /\ m.drone.is_crashed
     THEN IF m.drone.crash_reason = "battery_depleted"
          THEN [f EXCEPT !.drone = m.drone, !.reward = R(REWARD_BATTERY_DEPLETED),
                         !.done = TRUE, !.status = "failed_battery"]
          ELSE [f EXCEPT !.drone = m.drone, !.reward = R(REWARD_COLLISION),
                         !.done = TRUE, !.status = "failed_collision"]
     ELSE [f EXCEPT !.drone = m.drone]

\* city.py 214-225: CHECK 3, structural collision
check_collision(f, city) ==
  IF is_collision(city, f.drone.position[1], f.drone.position[2], f.drone.position[3])
  THEN [f EXCEPT !.drone = crash(f.drone, "collision"), !.reward = R(REWARD_COLLISION),
                 !.done = TRUE, !.status = "failed_collision",
                 !.collisions = f.collisions + 1]
  ELSE f

\* city.py 227-237: CHECK 4, no-fly interception
check_no_fly(f, city) ==
  IF is_no_fly_zone(city, f.drone.position[1], f.drone.position[2])
  THEN [f EXCEPT !.drone = crash(f.drone, "no_fly_interception"),
                 !.reward = R(REWARD_NO_FLY_INTERCEPTION),
                 !.done = TRUE, !.status = "failed_interception",
                 !.interceptions = f.interceptions + 1]
  ELSE f

\* CHECK 5 crashing the vehicle in the storm without ending the mission
check_storm_unended(f, w) ==
  IF w.condition \in {"storm", "thunderstorm"}
  THEN LET n == f.drone.steps_in_storm + 1
       IN IF n >= STORM_DAMAGE_THRESHOLD
          THEN [f EXCEPT !.drone = [crash(f.drone, "storm_damage") EXCEPT !.steps_in_storm = n],
                         !.storm_crashes = f.storm_crashes + 1]
          ELSE [f EXCEPT !.drone.steps_in_storm = n]
  ELSE [f EXCEPT !.drone.steps_in_storm = 0]

\* CHECK 5 counting windy weather as a storm
check_storm_windy(f, w) ==
  IF w.condition \in {"storm", "thunderstorm", "windy"}
  THEN LET n == f.drone.steps_in_storm + 1
       IN IF n >= STORM_DAMAGE_THRESHOLD
          THEN [f EXCEPT !.drone = [crash(f.drone, "storm_damage") EXCEPT !.steps_in_storm = n],
                         !.reward = R(REWARD_STORM_CRASH),
                         !.done = TRUE, !.status = "failed_storm",
                         !.storm_crashes = f.storm_crashes + 1]
          ELSE [f EXCEPT !.drone.steps_in_storm = n]
  ELSE [f EXCEPT !.drone.steps_in_storm = 0]

\* city.py 239-255: CHECK 5, storm damage
check_storm(f, w) ==
  IF w.condition \in {"storm", "thunderstorm"}
  THEN LET n == f.drone.steps_in_storm + 1
       IN IF n >= STORM_DAMAGE_THRESHOLD
          THEN [f EXCEPT !.drone = [crash(f.drone, "storm_damage") EXCEPT !.steps_in_storm = n],
                         !.reward = R(REWARD_STORM_CRASH),
                         !.done = TRUE, !.status = "failed_storm",
                         !.storm_crashes = f.storm_crashes + 1]
          ELSE [f EXCEPT !.drone.steps_in_storm = n]
  ELSE [f EXCEPT !.drone.steps_in_storm = 0]

\* the reward of a delivery at step delivery_time with battery left
success_reward(delivery_time, battery) ==
  R(REWARD_DELIVERY_SUCCESS)
    + REWARD_FAST_DELIVERY_BONUS * (MAX_STEPS_PER_EPISODE - delivery_time) * BATTERY_CAPACITY
    + REWARD_BATTERY_EFFICIENT * battery * MAX_STEPS_PER_EPISODE

\* city.py 257-293: target reached
check_target(f, target, step) ==
  IF is_at_target(f.drone, target)
  THEN LET dl == deliver_cargo(f.drone)
       IN IF dl.delivered # "None"
          THEN [f EXCEPT !.drone = dl.drone,
                         !.reward = success_reward(step, dl.drone.battery),
                         !.done = TRUE, !.status = "success"]
          ELSE [f EXCEPT !.drone = dl.drone]
  ELSE f

\* city.py 295-297
time_penalty(f) ==
  IF ~f.done THEN [f EXCEPT !.reward = f.reward + R(REWARD_TIME_PENALTY)] ELSE f

\* city.py 299-301
charging_penalty(f, action) ==
  IF action = "CHARGE" THEN [f EXCEPT !.reward = f.reward + R(REWARD_CHARGING)] ELSE f

\* the timeout check firing only once the cap is exceeded
check_timeout_late(f, step) ==
  IF step > MAX_STEPS_PER_EPISODE
  THEN [f EXCEPT !.done = TRUE, !.status = "failed_timeout", !.reward = R(REWARD_COLLISION)]
  ELSE f

\* city.py 303-307
check_timeout(f, step) ==
  IF step >= MAX_STEPS_PER_EPISODE
  THEN [f EXCEPT !.done = TRUE, !.status = "failed_timeout", !.reward = R(REWARD_COLLISION)]
  ELSE f

\* city.py 191-307: everything between the pre-flight checks and the return
post_flight(d, action, wind_effect, w, city, target, step) ==
  check_timeout(
    charging_penalty(
      time_penalty(
        check_target(
          check_storm(
            check_no_fly(
              check_collision(
                execute_action(Frame(d), action, wind_effect), city), city), w),
          target, step)),
      action),
    step)

\* the action tokens a driver hands to step: the canonical ones and the
\* arbiter's neutral token, which move treats like any unknown token
Tokens == Range(Actions) \cup {"wait"}

\* what a call returned; before is the mission status the call found and
\* canonical tells whether the token a step call was given is an action
Returned(call, reward, done, reason, info) ==
  [call |-> call, reward |-> reward, done |-> done, reason |-> reason,
   info |-> info, raised |-> FALSE, before |-> mission_status,
   canonical |-> TRUE]

InitialWeather == {"clear", "storm"}

EnvInit ==
  /\ obstacles \in Cities
  /\ weather \in UNION {update_weather_effects(c) : c \in InitialWeather}
  /\ drone = NoDrone
  /\ start_position = "None"
  /\ target_position = "None"
  /\ current_step = 0
  /\ mission_status = "in_progress"
  /\ total_reward = 0
  /\ violations = 0
  /\ collisions = 0
  /\ interceptions = 0
  /\ storm_crashes = 0
  /\ payload_spoilages = 0
  /\ ret = Returned("none", 0, FALSE, "None", {})
  /\ overrun = 0

\* CityEnvironment.reset
Reset ==
  /\ \E h \in obstacles.hospitals, l \in obstacles.labs :
       LET start == <<h[1], h[2], get_min_safe_altitude(obstacles, HalfCell * h[1], HalfCell * h[2])>>
           target == <<l[1], l[2], get_min_safe_altitude(obstacles, HalfCell * l[1], HalfCell * l[2])>>
       IN /\ start_position' = start
          /\ target_position' = target
          /\ drone' = pickup_cargo(new_drone(start), "blood_sample")
  /\ current_step' = 0
  /\ mission_status' = "in_progress"
  /\ total_reward' = 0
  /\ violations' = 0
  /\ collisions' = 0
  /\ interceptions' = 0
  /\ storm_crashes' = 0
  /\ payload_spoilages' = 0
  /\ ret' = Returned("reset", 0, FALSE, "None", {})
  /\ overrun' = 0
  /\ UNCHANGED <<obstacles, weather>>
  /\ UNCHANGED <<ctl_vars, agent_vars, seed_vars, driver_vars>>

\* the compass points the wind can blow to when it drifts the vehicle
DriftDirections(w) ==
  IF get_wind_effect(w, <<1, 1>>) = <<0, 0>> THEN {<<1, 0>>} ELSE WindDirections

\* CityEnvironment.step(action): what the call does to the environment
StepWith(action) ==
  /\ drone # NoDrone
  /\ ret.done => overrun < MaxMisuse
  /\ \E w \in weather_update(weather) :
     \E dir \in DriftDirections(w) :
     \E d1 \in {update_payload_condition(drone, 1)} :
       /\ current_step' = current_step + 1
       /\ weather' = w
       /\ overrun' = IF ret.done THEN overrun + 1 ELSE overrun
       /\ IF is_payload_spoiled(d1)
          THEN /\ drone' = d1
               /\ mission_status' = "failed_payload_spoiled"
               /\ payload_spoilages' = payload_spoilages + 1
               /\ ret' = [Returned("step", R(REWARD_PAYLOAD_SPOILED), TRUE,
                                   "payload_spoiled", ShortInfo)
                            EXCEPT !.canonical = action \in Range(Actions)]
               /\ UNCHANGED <<total_reward, collisions, interceptions, storm_crashes>>
          ELSE IF w.wind_speed >= EXTREME_WIND_SPEED
          THEN /\ drone' = crash(d1, "storm_damage")
               /\ mission_status' = "failed_storm"
               /\ storm_crashes' = storm_crashes + 1
               /\ ret' = [Returned("step", R(REWARD_STORM_CRASH), TRUE,
                                   "extreme_weather", ShortInfo)
                            EXCEPT !.canonical = action \in Range(Actions)]
               /\ UNCHANGED <<total_reward, collisions, interceptions, payload_spoilages>>
          ELSE \E f \in {post_flight(d1, action, get_wind_effect(w, dir), w, obstacles,
                                     target_position, current_step + 1)} :
                  /\ drone' = f.drone
                  /\ mission_status' = f.status
                  /\ collisions' = f.collisions
                  /\ interceptions' = f.interceptions
                  /\ storm_crashes' = f.storm_crashes
                  /\ total_reward' = total_reward + f.reward
                  /\ ret' = [Returned("step", f.reward, f.done, "None", FullInfo)
                               EXCEPT !.canonical = action \in Range(Actions)]
                  /\ UNCHANGED payload_spoilages
  /\ UNCHANGED <<obstacles, start_position, target_position, violations>>

\* CityEnvironment.step(action) called with any token
Step ==
  /\ \E action \in Tokens : StepWith(action)
  /\ UNCHANGED <<ctl_vars, agent_vars, seed_vars, driver_vars>>

\* step before the first reset: the step counter and the weather advance,
\* then self.drone.update_payload_condition raises (self.drone is None)
StepBeforeReset ==
  /\ drone = NoDrone
  /\ current_step < MaxMisuse
  /\ current_step' = current_step + 1
  /\ weather' \in weather_update(weather)
  /\ ret' = [Returned("step", 0, FALSE, "None", {}) EXCEPT !.raised = TRUE]
  /\ UNCHANGED <<obstacles, drone, start_position, target_position,
                 mission_status, total_reward, violations, collisions,
                 interceptions, storm_crashes, payload_spoilages, overrun>>
  /\ UNCHANGED <<ctl_vars, agent_vars, seed_vars, driver_vars>>

\* CityEnvironment._get_state: the observation
get_state ==
  LET x == drone.position[1]
      y == drone.position[2]
      z == drone.position[3]
  IN [position |-> <<x, y, z>>,
      battery |-> drone.battery,
      has_cargo |-> drone.cargo # "None",
      relative_target |-> <<HalfCell * target_position[1] - x,
                            HalfCell * target_position[2] - y,
                            target_position[3] - z>>,
      nearby_obstacles |-> get_obstacles_in_radius(obstacles, x, y, ObstacleRadius),
      in_no_fly_zone |-> is_no_fly_zone(obstacles, x, y),
      building_height |-> get_building_height(obstacles, x, y),
      neighbor_buildings |->
        [a \in Lateral |->
           get_building_height(obstacles, x + HalfCell * Delta(a)[1], y + HalfCell * Delta(a)[2])],
      neighbor_no_fly |->
        [a \in Lateral |->
           is_no_fly_zone(obstacles, x + HalfCell * Delta(a)[1], y + HalfCell * Delta(a)[2])],
      wind_speed |-> weather.wind_speed,
      safe_to_fly |-> is_safe_to_fly(weather),
      at_pickup_location |-> FALSE,
      at_delivery_location |-> FALSE]

(***************************************************************************)
(* LogicEngine (logic_engine.py).                                          *)
(***************************************************************************)
Rule(name, rule_type, action, priority) ==
  [name |-> name, rule_type |-> rule_type, action |-> action, priority |-> priority]

\* the rules in the order _load_safety_rules, _load_efficiency_rules and
\* _load_mission_rules add them
LoadOrder ==
  <<Rule("critical_battery", "safety", "HOVER", 100),
    Rule("return_to_base", "safety", "return_to_base", 90),
    Rule("bad_weather", "safety", "HOVER", 95),
    Rule("no_fly_zone", "safety", "avoid_area", 85),
    Rule("safe_altitude", "safety", "adjust_altitude", 80),
    Rule("avoid_obstacles", "safety", "evade", 88),
    Rule("direct_path", "efficiency", "move_direct", 30),
    Rule("conserve_energy", "efficiency", "conserve_energy", 40),
    Rule("optimal_altitude", "efficiency", "climb_higher", 25),
    Rule("pickup_cargo", "mission", "pickup", 60),
    Rule("deliver_cargo", "mission", "deliver", 65),
    Rule("go_to_pickup", "mission", "move_to_pickup", 50),
    Rule("go_to_delivery", "mission", "move_to_delivery", 55)>>

\* add_rule putting the new rule ahead of the rules of its priority
add_rule_unstable(rule_list, rule) ==
  LET k == Cardinality({i \in DOMAIN rule_list : rule_list[i].priority > rule.priority})
  IN SubSeq(rule_list, 1, k) \o <<rule>> \o SubSeq(rule_list, k + 1, Len(rule_list))

\* add_rule without the sort
add_rule_unsorted(rule_list, rule) == Append(rule_list, rule)

\* LogicEngine.add_rule: append, then the stable sort by priority, highest
\* first, of a list that was sorted before the append
add_rule(rule_list, rule) ==
  LET k == Cardinality({i \in DOMAIN rule_list : rule_list[i].priority >= rule.priority})
  IN SubSeq(rule_list, 1, k) \o <<rule>> \o SubSeq(rule_list, k + 1, Len(rule_list))

RECURSIVE load_rules(_, _)
load_rules(rule_list, todo) ==
  IF todo = <<>> THEN rule_list ELSE load_rules(add_rule(rule_list, Head(todo)), Tail(todo))

\* self.rules after LogicEngine.__init__
Rules == load_rules(<<>>, LoadOrder)

\* a rule a caller adds with add_rule: inside a no-fly zone, climb
CustomRules == {Rule("climb_out", "safety", "MOVE_UP", 96)}

\* rules a caller adds whose predicate reads a key that no observation
\* carries (state['gps_fix']), one SAFETY and one EFFICIENCY rule; their
\* priorities equal those of critical_battery and direct_path
FaultyRules ==
  {Rule("gps_check", "safety", "HOVER", 100),
   Rule("gps_route", "efficiency", "move_direct", 30)}

\* rule.condition(state) raises (KeyError)
raises(name, state) == name \in {"gps_check", "gps_route"}

\* rule.condition(state) with a critical_battery rule that never triggers
condition_no_emergency(name, state) ==
  CASE name = "critical_battery" -> FALSE
    [] name = "return_to_base" ->
         BatteryLE(state.battery, MIN_BATTERY_RETURN) /\ ~state.has_cargo
    [] name = "bad_weather" -> ~state.safe_to_fly
    [] name = "no_fly_zone" -> state.in_no_fly_zone
    [] name = "safe_altitude" ->
         \/ state.position[3] * ALTITUDE_STEP > SAFETY_MAX_ALTITUDE_M
         \/ state.position[3] * ALTITUDE_STEP < SAFETY_MIN_ALTITUDE_M
    [] name = "avoid_obstacles" -> state.nearby_obstacles > 0
    [] name = "direct_path" ->
         BatteryGT(state.battery, 50) /\ state.nearby_obstacles = 0 /\ state.safe_to_fly
    [] name = "conserve_energy" -> BatteryLT(state.battery, 40)
    [] name = "optimal_altitude" -> state.wind_speed > 15 /\ state.position[3] < 80
    [] name = "pickup_cargo" ->
         /\ ~state.has_cargo /\ state.at_pickup_location
         /\ BatteryGT(state.battery, MIN_BATTERY_RETURN + 20)
    [] name = "deliver_cargo" -> state.has_cargo /\ state.at_delivery_location
    [] name = "go_to_pickup" ->
         /\ ~state.has_cargo /\ ~state.at_pickup_location
         /\ BatteryGT(state.battery, MIN_BATTERY_RETURN + 30)
    [] name = "go_to_delivery" -> state.has_cargo /\ ~state.at_delivery_location
    [] name = "climb_out" -> state.in_no_fly_zone

\* rule.condition(state), by rule name
condition(name, state) ==
  CASE name = "critical_battery" -> BatteryLE(state.battery, MIN_BATTERY_EMERGENCY)
    [] name = "return_to_base" ->
         BatteryLE(state.battery, MIN_BATTERY_RETURN) /\ ~state.has_cargo
    [] name = "bad_weather" -> ~state.safe_to_fly
    [] name = "no_fly_zone" -> state.in_no_fly_zone
    [] name = "safe_altitude" ->
         \/ state.position[3] * ALTITUDE_STEP > SAFETY_MAX_ALTITUDE_M
         \/ state.position[3] * ALTITUDE_STEP < SAFETY_MIN_ALTITUDE_M
    [] name = "avoid_obstacles" -> state.nearby_obstacles > 0
    [] name = "direct_path" ->
         BatteryGT(state.battery, 50) /\ state.nearby_obstacles = 0 /\ state.safe_to_fly
    [] name = "conserve_energy" -> BatteryLT(state.battery, 40)
    [] name = "optimal_altitude" -> state.wind_speed > 15 /\ state.position[3] < 80
    [] name = "pickup_cargo" ->
         /\ ~state.has_cargo /\ state.at_pickup_location
         /\ BatteryGT(state.battery, MIN_BATTERY_RETURN + 20)
    [] name = "deliver_cargo" -> state.has_cargo /\ state.at_delivery_location
    [] name = "go_to_pickup" ->
         /\ ~state.has_cargo /\ ~state.at_pickup_location
         /\ BatteryGT(state.battery, MIN_BATTERY_RETURN + 30)
    [] name = "go_to_delivery" -> state.has_cargo /\ ~state.at_delivery_location
    [] name = "climb_out" -> state.in_no_fly_zone

\* evaluate_rules: a predicate that raises counts as not triggered
Triggered(rule, state) == ~raises(rule.name, state) /\ condition(rule.name, state)

\* LogicEngine.get_triggered_rules
get_triggered_rules(state) ==
  LET Test(r) == Triggered(r, state) IN SelectSeq(rules, Test)

\* LogicEngine.get_recommended_action: <<action, rule name or "None">>
get_recommended_action(state) ==
  LET triggered_rules == get_triggered_rules(state)
  IN IF triggered_rules # <<>>
     THEN <<triggered_rules[1].action, triggered_rules[1].name>>
     ELSE <<"continue", "None">>

\* a violation table that lets the vehicle climb on a critical battery
violations_table_climb(name) ==
  CASE name = "critical_battery" ->
         {"HOVER", "MOVE_NORTH", "MOVE_SOUTH", "MOVE_EAST", "MOVE_WEST"}
    [] name = "bad_weather" ->
         {"MOVE_UP", "MOVE_NORTH", "MOVE_SOUTH", "MOVE_EAST", "MOVE_WEST"}
    [] OTHER -> {}

\* the static violation table of _action_violates_rule
violations_table(name) ==
  CASE name = "critical_battery" ->
         {"MOVE_UP", "HOVER", "MOVE_NORTH", "MOVE_SOUTH", "MOVE_EAST", "MOVE_WEST"}
    [] name = "bad_weather" ->
         {"MOVE_UP", "MOVE_NORTH", "MOVE_SOUTH", "MOVE_EAST", "MOVE_WEST"}
    [] OTHER -> {}

\* state['neighbor_no_fly'].get(action, False)
neighbor_no_fly_of(state, action) ==
  IF action \in DOMAIN state.neighbor_no_fly THEN state.neighbor_no_fly[action] ELSE FALSE

\* state['neighbor_buildings'].get(action, 0)
neighbor_building_of(state, action) ==
  IF action \in DOMAIN state.neighbor_buildings THEN state.neighbor_buildings[action] ELSE 0

\* _action_violates_rule without the exemption of HOVER, CHARGE and wait,
\* every other check unchanged but CHARGE added to the static tables
action_violates_rule_unexempt(action, name, state) ==
  IF name = "no_fly_zone" /\ neighbor_no_fly_of(state, action)
  THEN TRUE
  ELSE IF /\ name = "avoid_obstacles"
          /\ action \in Lateral
          /\ state.position[3] <= neighbor_building_of(state, action)
  THEN TRUE
  ELSE IF /\ name = "avoid_obstacles"
          /\ action = "MOVE_DOWN"
          /\ state.position[3] - 1 <= state.building_height
  THEN TRUE
  ELSE action \in violations_table(name) \cup {"CHARGE"}

\* _action_violates_rule comparing the altitudes strictly
action_violates_rule_strict(action, name, state) ==
  IF action \in {"HOVER", "CHARGE", "wait"}
  THEN FALSE
  ELSE IF name = "no_fly_zone" /\ neighbor_no_fly_of(state, action)
  THEN TRUE
  ELSE IF /\ name = "avoid_obstacles"
          /\ action \in Lateral
          /\ state.position[3] < neighbor_building_of(state, action)
  THEN TRUE
  ELSE IF /\ name = "avoid_obstacles"
          /\ action = "MOVE_DOWN"
          /\ state.position[3] - 1 < state.building_height
  THEN TRUE
  ELSE action \in violations_table(name)

\* LogicEngine._action_violates_rule
action_violates_rule(action, name, state) ==
  IF action \in {"HOVER", "CHARGE", "wait"}
  THEN FALSE
  ELSE IF name = "no_fly_zone" /\ neighbor_no_fly_of(state, action)
  THEN TRUE
  ELSE IF /\ name = "avoid_obstacles"
          /\ action \in Lateral
          /\ state.position[3] <= neighbor_building_of(state, action)
  THEN TRUE
  ELSE IF /\ name = "avoid_obstacles"
          /\ action = "MOVE_DOWN"
          /\ state.position[3] - 1 <= state.building_height
  THEN TRUE
  ELSE action \in violations_table(name)

\* LogicEngine.is_action_safe: [safe |-> is_safe, violated |-> names of
\* violated_rules]; rule.condition is called outside any try, so the call
\* raises when the predicate of a SAFETY rule does, and then returns nothing
is_action_safe(state, action) ==
  LET Raising(r) == r.rule_type = "safety" /\ raises(r.name, state)
      Violated(r) ==
        /\ r.rule_type = "safety"
        /\ ~raises(r.name, state)
        /\ condition(r.name, state)
        /\ action_violates_rule(action, r.name, state)
      violated_rules == SelectSeq(rules, Violated)
  IN IF SelectSeq(rules, Raising) # <<>>
     THEN [safe |-> FALSE, violated |-> <<>>, raised |-> TRUE]
     ELSE [safe |-> Len(violated_rules) = 0,
           violated |-> [i \in DOMAIN violated_rules |-> violated_rules[i].name],
           raised |-> FALSE]

\* get_valid_actions without the filter
get_valid_actions_unfiltered(state, all_actions) == all_actions

\* LogicEngine.get_valid_actions raises: its first call of is_action_safe does
get_valid_actions_raises(state, all_actions) ==
  all_actions # <<>> /\ is_action_safe(state, all_actions[1]).raised

\* LogicEngine.get_valid_actions (when it returns)
get_valid_actions(state, all_actions) ==
  LET Safe(a) == is_action_safe(state, a).safe
      valid_actions == SelectSeq(all_actions, Safe)
  IN IF valid_actions = <<>> /\ "wait" \in Range(all_actions)
     THEN <<"wait">>
     ELSE valid_actions

(***************************************************************************)
(* QLearningAgent (q_learning.py).  Q-values and epsilon are integers in   *)
(* units of 1/QScale.  q_table maps the state keys it holds to a function  *)
(* from the actions it holds to their value; the table of the code is a    *)
(* defaultdict, so reading a missing entry inserts it with value 0.        *)
(***************************************************************************)
\* QLearningAgent.get_state_key
get_state_key(state) ==
  LET dx == state.relative_target[1]
      dy == state.relative_target[2]
      distance_bin == Min(((Abs(dx) + Abs(dy)) \div HalfCell) \div 5, 10)
      battery_bin == (100 * state.battery) \div (10 * BATTERY_CAPACITY)
      has_package == IF state.has_cargo THEN 1 ELSE 0
      weather_safe == IF state.safe_to_fly THEN 1 ELSE 0
      direction == IF Abs(dx) > Abs(dy)
                   THEN (IF dx > 0 THEN 0 ELSE 4)
                   ELSE (IF dy > 0 THEN 2 ELSE 6)
      obstacles_nearby == Min(state.nearby_obstacles, 5)
      in_no_fly == IF state.in_no_fly_zone THEN 1 ELSE 0
  IN <<distance_bin, battery_bin, has_package, weather_safe, direction,
       obstacles_nearby, in_no_fly>>

\* self.q_table[state_key][action] read on a defaultdict: the value
q_read(q, state_key, action) ==
  IF state_key \in DOMAIN q /\ action \in DOMAIN q[state_key]
  THEN q[state_key][action]
  ELSE 0

\* ... and the table after the reads of the actions in `actions` under state_key
q_touch(q, state_key, actions) ==
  LET old == IF state_key \in DOMAIN q THEN q[state_key] ELSE [a \in {} |-> 0]
      row == [a \in DOMAIN old \cup actions |-> IF a \in DOMAIN old THEN old[a] ELSE 0]
  IN [k \in DOMAIN q \cup {state_key} |-> IF k = state_key THEN row ELSE q[k]]

\* QLearningAgent._get_best_action: max() keeps the first maximal action
get_best_action(q, state, valid_actions) ==
  LET state_key == get_state_key(state)
      V(i) == q_read(q, state_key, valid_actions[i])
      best == CHOOSE i \in DOMAIN valid_actions :
                /\ \A j \in DOMAIN valid_actions : V(j) <= V(i)
                /\ \A j \in 1..(i - 1) : V(j) < V(i)
  IN valid_actions[best]

\* QLearningAgent.get_q_value
get_q_value(q, state, action) == q_read(q, get_state_key(state), action)

\* EPSILON_END and EPSILON_DECAY, in units of 1/QScale
epsilon_min == QScale \div 100

epsilon_decay == (995 * QScale) \div 1000

\* QLearningAgent.decay_epsilon
decay_epsilon(eps) == Max(epsilon_min, (eps * epsilon_decay) \div QScale)

\* QLearningAgent.save: the mapping pickled to the file
saved_data(q, eps, episodes, updates) ==
  [q_table |-> q, epsilon |-> eps, episodes_trained |-> episodes, total_updates |-> updates]

\* data.get(key, default) on the unpickled mapping
data_get(data, key, default) == IF key \in DOMAIN data THEN data[key] ELSE default

\* QLearningAgent.load on what the path holds: the returned value ("None"
\* when the call raises instead of returning) and the agent afterwards.
\* pickle.load raises on bytes that are no pickle, data['q_table'] raises
\* KeyError on a mapping without that key
load(f, q, eps, episodes, updates) ==
  IF f.kind = "missing"
  THEN [returned |-> "False", raised |-> FALSE,
        agent |-> saved_data(q, eps, episodes, updates)]
  ELSE IF f.kind = "garbage" \/ "q_table" \notin DOMAIN f.data
  THEN [returned |-> "None", raised |-> TRUE,
        agent |-> saved_data(q, eps, episodes, updates)]
  ELSE [returned |-> "True", raised |-> FALSE,
        agent |-> saved_data(f.data.q_table,
                             data_get(f.data, "epsilon", epsilon_min),
                             data_get(f.data, "episodes_trained", 0),
                             data_get(f.data, "total_updates", 0))]

(***************************************************************************)
(* HybridController (hybrid_controller.py).                                *)
(***************************************************************************)
\* distance after the action, in HalfCell units
new_dist(state, action) ==
  LET d == Delta(action)
  IN Abs(state.relative_target[1] - HalfCell * d[1])
     + Abs(state.relative_target[2] - HalfCell * d[2])
     + HalfCell * Abs(state.relative_target[3] - d[3])

\* _get_goal_oriented_action returning the closest action even when it does
\* not get closer than the vehicle is
get_goal_oriented_action_any(state, safe_actions) ==
  LET best == CHOOSE i \in DOMAIN safe_actions :
                /\ \A j \in DOMAIN safe_actions :
                     new_dist(state, safe_actions[i]) <= new_dist(state, safe_actions[j])
                /\ \A j \in 1..(i - 1) :
                     new_dist(state, safe_actions[j]) > new_dist(state, safe_actions[i])
  IN IF safe_actions # <<>> THEN safe_actions[best] ELSE "None"

\* HybridController._get_goal_oriented_action, "None" when no action gets closer
get_goal_oriented_action(state, safe_actions) ==
  LET current_dist == new_dist(state, "HOVER")
      best == CHOOSE i \in DOMAIN safe_actions :
                /\ \A j \in DOMAIN safe_actions :
                     new_dist(state, safe_actions[i]) <= new_dist(state, safe_actions[j])
                /\ \A j \in 1..(i - 1) :
                     new_dist(state, safe_actions[j]) > new_dist(state, safe_actions[i])
  IN IF safe_actions # <<>> /\ new_dist(state, safe_actions[best]) < current_dist
     THEN safe_actions[best]
     ELSE "None"

\* critical_rules taking every triggered safety rule of priority 80 or more
critical_rules_from_80(triggered_rules) ==
  LET Critical(r) == r.rule_type = "safety" /\ r.priority >= 80
  IN SelectSeq(triggered_rules, Critical)

\* critical_rules of choose_action
critical_rules(triggered_rules) ==
  LET Critical(r) == r.rule_type = "safety" /\ r.priority >= 90
  IN SelectSeq(triggered_rules, Critical)

\* step 4 of choose_action: the branch taken and its action
branch(state, training, q, eps) ==
  LET triggered_rules == get_triggered_rules(state)
      safe_actions == get_valid_actions(state, Actions)
      critical == critical_rules(triggered_rules)
      best_q_action == get_best_action(q, state, safe_actions)
      q_val == get_q_value(q, state, best_q_action)
      best_move == get_goal_oriented_action(state, safe_actions)
      touched == q_touch(q, get_state_key(state), Range(safe_actions))
  IN IF critical # <<>>
     THEN [action |-> critical[1].action, decision_type |-> "safety_critical",
           safety_override |-> TRUE, q_table |-> q,
           q_values |-> [a \in {} |-> 0]]
     ELSE IF safe_actions # <<>>
     THEN [action |-> IF ((training /\ eps * 10 > 3 * QScale) \/ q_val * 10 < QScale)
                         /\ best_move # "None"
                      THEN best_move ELSE best_q_action,
           decision_type |-> IF ((training /\ eps * 10 > 3 * QScale) \/ q_val * 10 < QScale)
                                /\ best_move # "None"
                             THEN "goal_oriented_heuristic" ELSE "hybrid_greedy",
           safety_override |-> FALSE, q_table |-> touched,
           q_values |-> [a \in Range(safe_actions) |-> get_q_value(q, state, a)]]
     ELSE [action |-> "emergency_land", decision_type |-> "emergency",
           safety_override |-> TRUE, q_table |-> q,
           q_values |-> [a \in {} |-> 0]]

\* choose_action without the final safety check
choose_action_unchecked(state, training, q, eps) ==
  LET triggered_rules == get_triggered_rules(state)
      recommended == get_recommended_action(state)
      safe_actions == get_valid_actions(state, Actions)
      b == branch(state, training, q, eps)
  IN [action |-> b.action,
      info |-> [triggered_rules |-> Len(triggered_rules),
                top_rule |-> recommended[2],
                safe_actions_count |-> Len(safe_actions),
                recommended_action |-> recommended[1],
                decision_type |-> b.decision_type,
                q_values |-> b.q_values,
                safety_override |-> b.safety_override,
                has_violated_rules |-> FALSE,
                violated_rules |-> <<>>],
      q_table |-> b.q_table,
      overrides |-> IF b.safety_override THEN 1 ELSE 0,
      suggestions |-> IF b.action = recommended[1] THEN 1 ELSE 0]

\* HybridController.choose_action when it returns: the returned action and
\* decision_info, the Q-table after the call and the increments of the two
\* counters
choose_action(state, training, q, eps) ==
  LET triggered_rules == get_triggered_rules(state)
      recommended == get_recommended_action(state)
      safe_actions == get_valid_actions(state, Actions)
      b == branch(state, training, q, eps)
      check == is_action_safe(state, b.action)
      veto == ~check.safe /\ b.decision_type # "emergency"
      action == IF veto THEN "wait" ELSE b.action
  IN [action |-> action,
      info |-> [triggered_rules |-> Len(triggered_rules),
                top_rule |-> recommended[2],
                safe_actions_count |-> Len(safe_actions),
                recommended_action |-> recommended[1],
                decision_type |-> b.decision_type,
                q_values |-> b.q_values,
                safety_override |-> b.safety_override \/ veto,
                has_violated_rules |-> veto,
                violated_rules |-> IF veto THEN check.violated ELSE <<>>],
      q_table |-> b.q_table,
      overrides |-> (IF b.safety_override THEN 1 ELSE 0) + (IF veto THEN 1 ELSE 0),
      suggestions |-> IF action = recommended[1] THEN 1 ELSE 0]

(***************************************************************************)
(* The controller as constructed, and the environment's specification.     *)
(***************************************************************************)
NoDecision == [action |-> "None"]

NoObservation == [none |-> TRUE]

\* HybridController.__init__: empty Q-table, epsilon = EPSILON_START
CtlInit ==
  /\ rules = Rules
  /\ obs = NoObservation
  /\ q_table = [k \in {} |-> 0]
  /\ epsilon = QScale
  /\ decisions_made = 0
  /\ safety_overrides = 0
  /\ logic_suggestions = 0
  /\ decision = NoDecision

\* QLearningAgent.__init__, and no file saved yet
AgentInit ==
  /\ episodes_trained = 0
  /\ total_updates = 0
  /\ file = [kind |-> "missing"]
  /\ load_ret = [returned |-> "None", raised |-> FALSE, n |-> 0]

\* the generator as the process starts it (seed 0 stands for the seed it
\* takes from the system) and no environment built from a seed
SeedInit ==
  /\ rng = [seed |-> 0, n |-> 0]
  /\ envs = [e \in {} |-> 0]

NoTransition == [none |-> TRUE]

\* the driver has made no step call and no update call yet
DriverInit == handed = "None" /\ learned = NoTransition

vars == <<env_vars, ctl_vars, agent_vars, seed_vars, driver_vars>>

Init == EnvInit /\ CtlInit /\ AgentInit /\ SeedInit /\ DriverInit

Next == Reset \/ Step \/ StepBeforeReset

Spec == Init /\ [][Next]_vars

(***************************************************************************)
(* Properties of the environment, checked under Spec.                      *)
(***************************************************************************)
\* a transition made by a call of step that got past its first three lines
IsStep == drone # NoDrone /\ current_step' = current_step + 1

\* the step reached self.drone.move (neither pre-flight check returned)
MoveAttempted == IsStep /\ ret'.info = FullInfo

\* the failure counters a transition increases
Increased ==
  {c \in {"collisions", "interceptions", "storm_crashes", "payload_spoilages"} :
     \/ c = "collisions" /\ collisions' > collisions
     \/ c = "interceptions" /\ interceptions' > interceptions
     \/ c = "storm_crashes" /\ storm_crashes' > storm_crashes
     \/ c = "payload_spoilages" /\ payload_spoilages' > payload_spoilages}

\* the step returned this reward, lowered by the charging penalty if the
\* action was CHARGE
RewardIs(reward) == ret'.reward \in {reward, reward + R(REWARD_CHARGING)}

\* the status and reward of the check that owns a failure counter
OutcomeOf(c) ==
  CASE c = "collisions" -> <<"failed_collision", R(REWARD_COLLISION)>>
    [] c = "interceptions" -> <<"failed_interception", R(REWARD_NO_FLY_INTERCEPTION)>>
    [] c = "storm_crashes" -> <<"failed_storm", R(REWARD_STORM_CRASH)>>
    [] c = "payload_spoilages" -> <<"failed_payload_spoiled", R(REWARD_PAYLOAD_SPOILED)>>

\* C1: a step that triggers a terminal check skips the later ones: it
\* increases at most one failure counter, and the status and the reward it
\* returns are those of the check whose counter it increased (less the
\* charging penalty when the action was CHARGE)
C1_FirstCheckWins ==
  [][IsStep =>
       /\ Cardinality(Increased) <= 1
       /\ \A c \in Increased :
            /\ mission_status' = OutcomeOf(c)[1]
            /\ RewardIs(OutcomeOf(c)[2])]_vars

\* C2: the mission status changes only from in_progress to a terminal value;
\* after a step returned done, only reset changes it
C2_StatusFinal ==
  [][mission_status' # mission_status =>
       \/ mission_status = "in_progress" /\ mission_status' # "in_progress"
       \/ ret'.call = "reset"]_vars

\* the energy costs of the moves of Drone.move, with and without cargo
StepCosts ==
  {HOVER_ENERGY, ENERGY_PER_ALTITUDE, ENERGY_PER_ALTITUDE \div 2,
   (CELL_SIZE * ENERGY_PER_KM) \div 1000,
   (((CELL_SIZE * ENERGY_PER_KM) \div 1000) * 12) \div 10}

C8_DepletedFails ==
  [][(/\ MoveAttempted
      /\ ~ret.done
      /\ ~drone.is_crashed
      /\ ~drone.is_charging
      /\ drone.battery <= 0) =>
       /\ drone'.position = drone.position
       /\ drone'.is_crashed
       /\ drone'.crash_reason = "battery_depleted"
       /\ ret'.done
       /\ mission_status' = "failed_battery"
       /\ RewardIs(R(REWARD_BATTERY_DEPLETED))]_vars

\* C9: whatever state reset is called in, it leaves a mission in progress,
\* the cargo aboard, fresh and locked with its clock at 0, a full battery, an
\* uncrashed vehicle, the step counter, the failure counters and the total
\* reward at 0
C9_ResetIsFresh ==
  ret.call = "reset" =>
    /\ mission_status = "in_progress"
    /\ get_state.has_cargo
    /\ get_state.battery = BATTERY_CAPACITY
    /\ current_step = 0
    /\ drone.time_since_pickup = 0
    /\ drone.payload_condition = "fresh"
    /\ drone.payload_locked
    /\ ~drone.is_crashed
    /\ violations = 0
    /\ collisions = 0
    /\ interceptions = 0
    /\ storm_crashes = 0
    /\ payload_spoilages = 0
    /\ total_reward = 0

\* reset was called on a mission that an interception had ended
C9_Witness ==
  /\ ret.call = "reset"
  /\ ret.before = "failed_interception"

\* C10: a step that finds cargo aboard whose clock reaches the limit ends the
\* mission as failed_payload_spoiled with the spoilage reward, and neither
\* moves the vehicle nor changes the battery
C10_Spoiled ==
  [][(/\ IsStep
      /\ drone.cargo # "None"
      /\ drone.time_since_pickup + 1 >= PAYLOAD_MAX_TIME) =>
       /\ ret'.done
       /\ mission_status' = "failed_payload_spoiled"
       /\ ret'.reward = R(REWARD_PAYLOAD_SPOILED)
       /\ drone'.position = drone.position
       /\ drone'.battery = drone.battery]_vars

\* a step has just ended the mission for spoilage, in a storm
C10_Witness ==
  /\ ret.call = "step"
  /\ ret.reason = "payload_spoiled"
  /\ mission_status = "failed_payload_spoiled"
  /\ drone.time_since_pickup >= PAYLOAD_MAX_TIME
  /\ weather.condition = "storm"

\* C5: in every observation the environment produces with the vehicle
\* outside the no-fly zones, is_action_safe rejects each lateral move whose
\* destination the neighbor data flags as no-fly
C5_FlaggedMoveUnsafe ==
  (drone # NoDrone /\ ~get_state.in_no_fly_zone) =>
    \A a \in Lateral :
      get_state.neighbor_no_fly[a] => ~is_action_safe(get_state, a).safe

(***************************************************************************)
(* choose_action on every observation of a bounded set, with a trained or  *)
(* untrained Q-table and a high or low epsilon.                            *)
(***************************************************************************)
ObsBattery == {0, 2, 3, 6, BATTERY_CAPACITY}

ObsAltitude == {0, 2}

ObsTargets == {<<2 * HalfCell, 0, 0>>, <<0, -HalfCell, 1>>, <<0, 0, 0>>}

Observations ==
  {[position |-> <<HalfCell, HalfCell, z>>,
    battery |-> b,
    has_cargo |-> c,
    relative_target |-> t,
    nearby_obstacles |-> n,
    in_no_fly_zone |-> nf,
    building_height |-> bh,
    neighbor_buildings |-> [a \in Lateral |-> IF a = "MOVE_NORTH" THEN nh ELSE 0],
    neighbor_no_fly |-> [a \in Lateral |-> a = "MOVE_EAST" /\ ef],
    wind_speed |-> WindLevels[1],
    safe_to_fly |-> sf,
    at_pickup_location |-> FALSE,
    at_delivery_location |-> FALSE] :
   z \in ObsAltitude, b \in ObsBattery, c \in BOOLEAN, t \in ObsTargets,
   n \in {0, 2}, nf \in BOOLEAN, bh \in {0, 1}, nh \in {0, 2, 3}, ef \in BOOLEAN,
   sf \in BOOLEAN}

\* an empty table, one that knows a single action of the observation's key,
\* and one with a full row that prefers MOVE_DOWN
QTables(state) ==
  {[k \in {} |-> 0],
   [k \in {get_state_key(state)} |-> [a \in {"MOVE_EAST"} |-> QScale]],
   [k \in {get_state_key(state)} |->
      [a \in Range(Actions) |-> IF a = "MOVE_DOWN" THEN QScale ELSE 0 - QScale]]}

\* EPSILON_START and EPSILON_END
Epsilons == {QScale, QScale \div 100}

MaxDecisions == 1

ArbiterInit ==
  /\ obstacles = CityA
  /\ weather \in update_weather_effects("clear")
  /\ weather.wind_speed = WindLevels[1]
  /\ drone = NoDrone
  /\ start_position = "None"
  /\ target_position = "None"
  /\ current_step = 0
  /\ mission_status = "in_progress"
  /\ total_reward = 0
  /\ violations = 0
  /\ collisions = 0
  /\ interceptions = 0
  /\ storm_crashes = 0
  /\ payload_spoilages = 0
  /\ ret = Returned("none", 0, FALSE, "None", {})
  /\ overrun = 0
  /\ rules = Rules
  /\ obs \in Observations
  /\ q_table \in QTables(obs)
  /\ epsilon \in Epsilons
  /\ decisions_made = 0
  /\ safety_overrides = 0
  /\ logic_suggestions = 0
  /\ decision = NoDecision
  /\ AgentInit
  /\ SeedInit
  /\ DriverInit

\* HybridController.choose_action(obs, training); when get_valid_actions
\* raises (line 68) the call ends there, having counted the decision
ChooseAction ==
  /\ decisions_made < MaxDecisions
  /\ \E training \in BOOLEAN :
       IF get_valid_actions_raises(obs, Actions)
       THEN /\ decision' = [action |-> "None", training |-> training, raised |-> TRUE]
            /\ UNCHANGED <<q_table, safety_overrides, logic_suggestions>>
       ELSE \E c \in {choose_action(obs, training, q_table, epsilon)} :
              /\ decision' = [action |-> c.action, info |-> c.info,
                              training |-> training, raised |-> FALSE]
              /\ q_table' = c.q_table
              /\ safety_overrides' = safety_overrides + c.overrides
              /\ logic_suggestions' = logic_suggestions + c.suggestions
  /\ decisions_made' = decisions_made + 1
  /\ UNCHANGED <<rules, obs, epsilon>>
  /\ UNCHANGED <<env_vars, agent_vars, seed_vars, driver_vars>>

\* logic_engine.add_rule(rule), each rule of CustomRules at most once
AddRule ==
  /\ \E rule \in CustomRules :
       /\ rule \notin Range(rules)
       /\ rules' = add_rule(rules, rule)
  /\ UNCHANGED <<obs, q_table, epsilon, decisions_made, safety_overrides,
                 logic_suggestions, decision>>
  /\ UNCHANGED <<env_vars, agent_vars, seed_vars, driver_vars>>

ArbiterNext == ChooseAction \/ AddRule

SpecArbiter == ArbiterInit /\ [][ArbiterNext]_vars

(***************************************************************************)
(* Properties of the rule engine and the controller, checked under         *)
(* SpecArbiter.                                                            *)
(***************************************************************************)
\* a transition made by a call of choose_action
IsDecision == decisions_made' = decisions_made + 1

IsCritical(r, state) ==
  r.rule_type = "safety" /\ r.priority >= 90 /\ Triggered(r, state)

\* some SAFETY rule with priority >= 90 is triggered on the observation
CriticalTriggered == \E i \in DOMAIN rules : IsCritical(rules[i], obs)

\* the highest-priority one of them
TopCritical ==
  CHOOSE r \in Range(rules) :
    /\ IsCritical(r, obs)
    /\ \A r2 \in Range(rules) : IsCritical(r2, obs) => r2.priority <= r.priority

\* C3: when a SAFETY rule with priority >= 90 is triggered, choose_action
\* returns the action of the highest-priority such rule on the
\* safety_critical branch with the override flag set, whatever the Q-table,
\* epsilon and training are; battery <= 5 or safe_to_fly false gives HOVER
C3_CriticalActionTaken ==
  [][(IsDecision /\ CriticalTriggered) =>
       /\ decision'.action = TopCritical.action
       /\ decision'.info.decision_type = "safety_critical"
       /\ decision'.info.safety_override
       /\ (BatteryLE(obs.battery, MIN_BATTERY_EMERGENCY) \/ ~obs.safe_to_fly)
            => decision'.action = "HOVER"]_vars

\* C3 as amended: the branch is safety_critical with the override flag set,
\* and the action is that of the highest-priority triggered critical rule
\* unless is_action_safe rejects it, when it is "wait"; with the rules of a
\* new engine battery <= 5 or safe_to_fly false gives HOVER
C3_CriticalUnlessVetoed ==
  [][(IsDecision /\ CriticalTriggered) =>
       /\ decision'.action =
            IF is_action_safe(obs, TopCritical.action).safe
            THEN TopCritical.action ELSE "wait"
       /\ decision'.info.decision_type = "safety_critical"
       /\ decision'.info.safety_override
       /\ (/\ rules = Rules
           /\ BatteryLE(obs.battery, MIN_BATTERY_EMERGENCY) \/ ~obs.safe_to_fly)
            => decision'.action = "HOVER"]_vars

\* a greedy call (training off, epsilon at its minimum) on a table that
\* prefers MOVE_DOWN was answered on the safety_critical branch: with HOVER
\* for bad weather, and with the action of an added rule
C3_Witness ==
  /\ decision # NoDecision
  /\ decision.info.decision_type = "safety_critical"
  /\ ~decision.training
  /\ epsilon < QScale
  /\ get_q_value(q_table, obs, "MOVE_DOWN") = QScale
  /\ \/ decision.action = "HOVER" /\ ~obs.safe_to_fly /\ rules = Rules
     \/ decision.action = "MOVE_UP"

\* C4: the action choose_action returns is safe by is_action_safe on the
\* same observation unless the branch is emergency; when the branch's action
\* is unsafe the call returns "wait", sets the override flag, counts an
\* override and records the names of the violated rules
C4_ReturnedActionSafe ==
  [][IsDecision =>
       LET b == branch(obs, decision'.training, q_table, epsilon)
           verdict == is_action_safe(obs, b.action)
       IN /\ decision'.info.decision_type # "emergency"
               => is_action_safe(obs, decision'.action).safe
          /\ (~verdict.safe /\ b.decision_type # "emergency") =>
               /\ decision'.action = "wait"
               /\ decision'.info.safety_override
               /\ decision'.info.has_violated_rules
               /\ decision'.info.violated_rules = verdict.violated
               /\ verdict.violated # <<>>
               /\ safety_overrides' > safety_overrides]_vars

\* the final check has replaced a branch's action by "wait"
C4_Witness ==
  /\ decision # NoDecision
  /\ decision.action = "wait"
  /\ decision.info.has_violated_rules
  /\ "bad_weather" \in Range(decision.info.violated_rules)

\* C6: with an obstacle nearby, is_action_safe rejects, naming
\* avoid_obstacles, a lateral move towards a building at least as high as
\* the vehicle flies, and MOVE_DOWN when altitude - 1 is not above the
\* building underneath
C6_ObstacleMovesUnsafe ==
  (obs # NoObservation /\ obs.nearby_obstacles >= 1) =>
    /\ \A a \in Lateral :
         obs.neighbor_buildings[a] >= obs.position[3] =>
           /\ ~is_action_safe(obs, a).safe
           /\ "avoid_obstacles" \in Range(is_action_safe(obs, a).violated)
    /\ obs.position[3] - 1 <= obs.building_height =>
         /\ ~is_action_safe(obs, "MOVE_DOWN").safe
         /\ "avoid_obstacles" \in Range(is_action_safe(obs, "MOVE_DOWN").violated)

\* at altitude 2 with a building of height 3 to the north and obstacles
\* nearby, a decision was made and MOVE_NORTH is rejected
C6_Witness ==
  /\ decision # NoDecision
  /\ obs.nearby_obstacles >= 1
  /\ obs.position[3] = 2
  /\ obs.neighbor_buildings["MOVE_NORTH"] = 3
  /\ ~is_action_safe(obs, "MOVE_NORTH").safe
  /\ decision.action # "MOVE_NORTH"

(***************************************************************************)
(* Delivery and action tokens, checked under Spec.                         *)
(***************************************************************************)
\* C11: on a step that passed the pre-flight checks, a vehicle that carries
\* cargo and is within Chebyshev distance 1 of the target after the move
\* delivers, and the step returns done with mission status SUCCESS
C11_ArrivalDelivers ==
  [][(MoveAttempted /\ drone.has_package /\ is_at_target(drone', target_position)) =>
       /\ ~drone'.has_package
       /\ ret'.done
       /\ mission_status' = "success"]_vars

\* a step that delivered the cargo
Delivers == IsStep /\ drone.has_package /\ ~drone'.has_package

\* C12: a step that delivers returns exactly base + fast-delivery bonus *
\* (1 - step / MAX_STEPS) + battery bonus * (battery / 100), whatever the
\* action; the sum decreases strictly with the step and increases strictly
\* with the battery
C12_DeliveryReward ==
  [][Delivers =>
       /\ ret'.reward = success_reward(current_step', drone'.battery)
       /\ \A s1, s2 \in 1 .. MAX_STEPS_PER_EPISODE, b1, b2 \in 0 .. BATTERY_CAPACITY :
            /\ s1 < s2 => success_reward(s1, b1) > success_reward(s2, b1)
            /\ b1 < b2 => success_reward(s1, b1) < success_reward(s1, b2)]_vars

\* a step call given a token that is not one of the 8 actions
UnknownToken == IsStep /\ ~ret'.canonical

\* C18: a step call whose action is not one of the 8 canonical tokens fails
\* with an error and is not executed as some other action
C18_UnknownTokenFails == [][UnknownToken => ret'.raised]_vars

\* C18 as amended: such a call returns normally, and what it does and
\* returns is what step("HOVER") does and returns in the same state with the
\* same weather
C18_UnknownTokenHovers ==
  [][UnknownToken =>
       /\ ~ret'.raised
       /\ ret'.info = FullInfo =>
            \E dir \in DriftDirections(weather') :
              \E f \in {post_flight(update_payload_condition(drone, 1), "HOVER",
                                      get_wind_effect(weather', dir), weather', obstacles,
                                      target_position, current_step')} :
                 /\ drone' = f.drone
                 /\ ret'.reward = f.reward
                 /\ ret'.done = f.done
                 /\ mission_status' = f.status
                 /\ total_reward' = total_reward + f.reward
                 /\ collisions' = f.collisions
                 /\ interceptions' = f.interceptions
                 /\ storm_crashes' = f.storm_crashes]_vars

\* a step call given "wait" returned normally from its last line after the vehicle spent
\* the hover energy without moving
C18_Witness ==
  /\ ret.call = "step"
  /\ ~ret.canonical
  /\ ~ret.raised
  /\ ret.info = FullInfo
  /\ ~ret.done
  /\ current_step = 1
  /\ drone.battery = BATTERY_CAPACITY - HOVER_ENERGY
  /\ drone.position = <<HalfCell * start_position[1], HalfCell * start_position[2],
                        start_position[3]>>

(***************************************************************************)
(* The rule engine under a critical battery, checked under SpecArbiter.    *)
(***************************************************************************)
\* C13: get_valid_actions over the 8 canonical actions is never empty
C13_ValidActionsNonEmpty ==
  obs # NoObservation => Len(get_valid_actions(obs, Actions)) >= 1

\* a decision was made on an observation on which every move is unsafe
\* (critical battery, and MOVE_DOWN would hit the building underneath):
\* HOVER and CHARGE are what is left
C13_Witness ==
  /\ decision # NoDecision
  /\ \A a \in Lateral \cup {"MOVE_UP", "MOVE_DOWN"} : ~is_action_safe(obs, a).safe
  /\ get_valid_actions(obs, Actions) = <<"HOVER", "CHARGE">>

\* the battery of the observation is at or below the critical threshold
CriticalBattery == obs # NoObservation /\ BatteryLE(obs.battery, MIN_BATTERY_EMERGENCY)

\* critical_battery, priority 100, is among the triggered rules
CriticalBatteryTriggered ==
  \E i \in DOMAIN get_triggered_rules(obs) :
    /\ get_triggered_rules(obs)[i].name = "critical_battery"
    /\ get_triggered_rules(obs)[i].priority = 100

\* C14: with the battery at or below 5% the critical-battery rule is
\* triggered and is_action_safe reports MOVE_UP, HOVER and the four lateral
\* moves as unsafe
C14_CriticalBatteryBars ==
  CriticalBattery =>
    /\ CriticalBatteryTriggered
    /\ \A a \in Lateral \cup {"MOVE_UP", "HOVER"} : ~is_action_safe(obs, a).safe

\* C14 as amended: the rule is triggered, is_action_safe reports MOVE_UP and
\* the four lateral moves as unsafe, naming critical_battery, and reports
\* HOVER (like CHARGE and wait) as safe
C14_CriticalBatteryBarsMoves ==
  CriticalBattery =>
    /\ CriticalBatteryTriggered
    /\ \A a \in Lateral \cup {"MOVE_UP"} :
         /\ ~is_action_safe(obs, a).safe
         /\ "critical_battery" \in Range(is_action_safe(obs, a).violated)
    /\ \A a \in {"HOVER", "CHARGE", "wait"} : is_action_safe(obs, a).safe

\* a decision was made on an observation with an empty battery in good
\* weather, with no obstacle and no no-fly zone around
C14_Witness ==
  /\ decision # NoDecision
  /\ CriticalBattery
  /\ obs.safe_to_fly
  /\ obs.nearby_obstacles = 0
  /\ ~obs.in_no_fly_zone
  /\ is_action_safe(obs, "MOVE_UP").violated = <<"critical_battery">>

\* C15: with the battery at or below 5% and safe_to_fly true,
\* get_valid_actions returns only HOVER, CHARGE and wait: no directional
\* move, MOVE_DOWN included
C15_OnlyWaitClass ==
  (CriticalBattery /\ obs.safe_to_fly) =>
    Range(get_valid_actions(obs, Actions)) \subseteq {"HOVER", "CHARGE", "wait"}

\* the obstacle rule forbids the descent: obstacles nearby and altitude - 1
\* not above the building underneath
DescentBlocked ==
  obs.nearby_obstacles > 0 /\ obs.position[3] - 1 <= obs.building_height

\* C15 as amended: the result holds HOVER and CHARGE, no MOVE_UP and no
\* lateral move, and MOVE_DOWN exactly when the obstacle rule does not
\* forbid the descent
C15_WaitClassOrDescent ==
  (CriticalBattery /\ obs.safe_to_fly) =>
    Range(get_valid_actions(obs, Actions)) =
      {"HOVER", "CHARGE"} \cup (IF DescentBlocked THEN {} ELSE {"MOVE_DOWN"})

\* a decision was made with an empty battery in good weather at altitude 2
\* above a building of height 0: the descent is among the valid actions
C15_Witness ==
  /\ decision # NoDecision
  /\ CriticalBattery
  /\ obs.safe_to_fly
  /\ obs.position[3] = 2
  /\ obs.building_height = 0
  /\ get_valid_actions(obs, Actions) = <<"MOVE_DOWN", "HOVER", "CHARGE">>

(***************************************************************************)
(* The rule engine with rules added by the caller, some of them with a     *)
(* predicate that raises.                                                  *)
(***************************************************************************)
\* observations of a laden vehicle at altitude 2 over open ground
EngineObservations ==
  {o \in Observations :
     /\ o.has_cargo
     /\ o.position[3] = 2
     /\ o.relative_target = <<2 * HalfCell, 0, 0>>
     /\ o.building_height = 0
     /\ o.neighbor_buildings["MOVE_NORTH"] = 0
     /\ ~o.neighbor_no_fly["MOVE_EAST"]}

\* an environment as constructed, in city CityA under a clear sky
EnvIdle ==
  /\ obstacles = CityA
  /\ weather \in update_weather_effects("clear")
  /\ weather.wind_speed = WindLevels[1]
  /\ drone = NoDrone
  /\ start_position = "None"
  /\ target_position = "None"
  /\ current_step = 0
  /\ mission_status = "in_progress"
  /\ total_reward = 0
  /\ violations = 0
  /\ collisions = 0
  /\ interceptions = 0
  /\ storm_crashes = 0
  /\ payload_spoilages = 0
  /\ ret = Returned("none", 0, FALSE, "None", {})
  /\ overrun = 0

EngineInit == EnvIdle /\ CtlInit /\ AgentInit /\ SeedInit /\ DriverInit

\* the caller hands the controller its first observation
Observe ==
  /\ obs = NoObservation
  /\ obs' \in EngineObservations
  /\ UNCHANGED <<rules, q_table, epsilon, decisions_made, safety_overrides,
                 logic_suggestions, decision>>
  /\ UNCHANGED <<env_vars, agent_vars, seed_vars, driver_vars>>

\* choose_action on the observation handed over
Decide == obs # NoObservation /\ ChooseAction

\* logic_engine.add_rule(rule) with any of the caller's rules, each once
AddAnyRule ==
  /\ \E rule \in CustomRules \cup FaultyRules :
       /\ rule \notin Range(rules)
       /\ rules' = add_rule(rules, rule)
  /\ UNCHANGED <<obs, q_table, epsilon, decisions_made, safety_overrides,
                 logic_suggestions, decision>>
  /\ UNCHANGED <<env_vars, agent_vars, seed_vars, driver_vars>>

EngineNext == Observe \/ Decide \/ AddAnyRule

SpecEngine == EngineInit /\ [][EngineNext]_vars

\* the position of a rule in a rule list
IndexOf(rule_list, rule) == CHOOSE i \in DOMAIN rule_list : rule_list[i] = rule

\* the list is in non-increasing priority order
Sorted(rule_list) ==
  \A i, j \in DOMAIN rule_list :
    i < j => rule_list[i].priority >= rule_list[j].priority

\* a call of add_rule put the rule new after every rule of its priority and
\* left the order of the others alone
InsertedStably(old, new_list) ==
  /\ Len(new_list) = Len(old) + 1
  /\ \E k \in DOMAIN new_list :
       /\ new_list[k] \notin Range(old)
       /\ \A i \in DOMAIN old : new_list[IF i < k THEN i ELSE i + 1] = old[i]
       /\ \A i \in DOMAIN new_list :
            (i # k /\ new_list[i].priority = new_list[k].priority) => i < k

\* C16: the rule list is in non-increasing priority order, rules of equal
\* priority in the order they were added (a new engine has the 13 built-in
\* rules; every add_rule inserts behind the rules of the same priority), and
\* get_triggered_rules returns exactly the rules whose predicate holds, once
\* each, in the order of the list, hence by non-increasing priority
C16_RulesSorted ==
  /\ [](/\ Sorted(rules)
        /\ obs # NoObservation =>
             LET triggered == get_triggered_rules(obs)
             IN /\ Range(triggered) = {r \in Range(rules) : Triggered(r, obs)}
                /\ Len(triggered) = Cardinality(Range(triggered))
                /\ Sorted(triggered)
                /\ \A i, j \in DOMAIN triggered :
                     i < j => IndexOf(rules, triggered[i]) < IndexOf(rules, triggered[j]))
  /\ [][rules' # rules => InsertedStably(rules, rules')]_vars

\* two rules were added that tie with built-in ones: each stands right
\* behind the built-in rule of its priority, and a decision was made on an
\* observation that triggers several rules
C16_Witness ==
  /\ decision # NoDecision
  /\ Len(rules) = Len(Rules) + 2
  /\ rules[1].name = "critical_battery"
  /\ rules[2].name = "gps_check"
  /\ \E i \in DOMAIN rules :
       /\ rules[i].name = "direct_path"
       /\ rules[i + 1].name = "gps_route"
  /\ Len(get_triggered_rules(obs)) >= 3

\* some rule of the list has a predicate that raises on the observation
SomeRuleRaises == \E r \in Range(rules) : raises(r.name, obs)

\* C19: a rule whose predicate raises is treated as not triggered, and
\* get_triggered_rules, is_action_safe, get_valid_actions and choose_action
\* all return normally, whatever the type of the rule
C19_FaultyRuleTolerated ==
  [][(IsDecision /\ SomeRuleRaises) =>
       /\ \A r \in Range(get_triggered_rules(obs)) : ~raises(r.name, obs)
       /\ \A a \in Range(Actions) : ~is_action_safe(obs, a).raised
       /\ ~get_valid_actions_raises(obs, Actions)
       /\ ~decision'.raised]_vars

(***************************************************************************)
(* Saving and loading the value table.                                     *)
(***************************************************************************)
MaxEpisodes == 2

MaxLoads == 2

\* a table written by an earlier training run, with its epsilon and counters
TrainedFile ==
  [kind |-> "data",
   data |-> saved_data([k \in {<<0, 10, 1, 1, 0, 0, 0>>} |-> [a \in {"MOVE_EAST"} |-> QScale]],
                       QScale \div 2, 1, 7)]

\* what a damaged file can hold: bytes that are no pickle, or the pickle of
\* a mapping that lacks the table
DamagedFiles ==
  {[kind |-> "garbage"],
   [kind |-> "data", data |-> [epsilon |-> QScale \div 2]]}

\* the files load cannot take a table from
BadFile == file.kind = "missing" \/ file \in DamagedFiles

AgentSpecInit ==
  /\ EnvIdle
  /\ CtlInit
  /\ SeedInit
  /\ DriverInit
  /\ episodes_trained = 0
  /\ total_updates = 0
  /\ file \in {[kind |-> "missing"], TrainedFile} \cup DamagedFiles
  /\ load_ret = [returned |-> "None", raised |-> FALSE, n |-> 0]

\* q_agent.load(path)
Load ==
  /\ load_ret.n < MaxLoads
  /\ \E l \in {load(file, q_table, epsilon, episodes_trained, total_updates)} :
       /\ load_ret' = [returned |-> l.returned, raised |-> l.raised, n |-> load_ret.n + 1]
       /\ q_table' = l.agent.q_table
       /\ epsilon' = l.agent.epsilon
       /\ episodes_trained' = l.agent.episodes_trained
       /\ total_updates' = l.agent.total_updates
  /\ UNCHANGED <<rules, obs, decisions_made, safety_overrides, logic_suggestions,
                 decision, file>>
  /\ UNCHANGED <<env_vars, seed_vars, driver_vars>>

\* q_agent.save(path)
Save ==
  /\ file' = [kind |-> "data",
              data |-> saved_data(q_table, epsilon, episodes_trained, total_updates)]
  /\ UNCHANGED <<ctl_vars, episodes_trained, total_updates, load_ret>>
  /\ UNCHANGED <<env_vars, seed_vars, driver_vars>>

\* the end of train_episode: decay_epsilon and reset_for_episode
EndEpisode ==
  /\ episodes_trained < MaxEpisodes
  /\ epsilon' = decay_epsilon(epsilon)
  /\ episodes_trained' = episodes_trained + 1
  /\ UNCHANGED <<rules, obs, q_table, decisions_made, safety_overrides,
                 logic_suggestions, decision, total_updates, file, load_ret>>
  /\ UNCHANGED <<env_vars, seed_vars, driver_vars>>

\* the file is deleted or damaged behind the agent's back
Damage ==
  /\ file' \in {[kind |-> "missing"]} \cup DamagedFiles
  /\ file' # file
  /\ UNCHANGED <<ctl_vars, episodes_trained, total_updates, load_ret>>
  /\ UNCHANGED <<env_vars, seed_vars, driver_vars>>

AgentNext == Load \/ Save \/ EndEpisode \/ Damage

SpecAgent == AgentSpecInit /\ [][AgentNext]_vars

\* a transition made by a call of load
IsLoad == load_ret'.n = load_ret.n + 1

\* C20: load on a missing or a corrupt file returns non-success without
\* raising and leaves the table, epsilon and the counters as they were
C20_LoadFailsGracefully ==
  [][(IsLoad /\ BadFile) =>
       /\ ~load_ret'.raised
       /\ load_ret'.returned = "False"
       /\ UNCHANGED <<q_table, epsilon, episodes_trained, total_updates>>]_vars

(***************************************************************************)
(* Seeds.  Every random choice of obstacles.py, weather.py and city.py is  *)
(* a draw from the one generator of the process, numpy.random, which       *)
(* CityObstacles.__init__ re-seeds when it is given a seed.  The generator *)
(* is deterministic: its k-th value after seed(s) is Draw(s, k).  An       *)
(* environment is described by what its random choices decided: the city   *)
(* layout, the wind, the start and target of the mission.                  *)
(***************************************************************************)
Seeds == {1, 2}

EnvNames == {"first", "second"}

\* the length of the longest run of calls (reset, then steps) on one environment
MaxCalls == 3

\* the number of values a draw chooses among
DrawSpan == 3

\* the k-th value of the generator after seed(s), k counted from 0
Draw(s, k) == (s + k * (k + 3)) % DrawSpan

\* CityEnvironment(seed = s) when the generator stands at g: CityObstacles
\* seeds the generator and draws the layout, WeatherSystem draws wind speed
\* and direction
build(s) ==
  [env |-> [seed |-> s,
            layout |-> <<Draw(s, 0), Draw(s, 1)>>,
            wind_speed |-> 5 + Draw(s, 2),
            wind_direction |-> Draw(s, 3),
            start |-> "None",
            target |-> "None",
            trace |-> <<>>],
   rng |-> [seed |-> s, n |-> 4]]

\* reset: get_random_hospital and get_random_lab draw one index each
reset_env(env, g) ==
  LET start == Draw(g.seed, g.n)
      target == Draw(g.seed, g.n + 1)
  IN [env |-> [env EXCEPT !.start = start, !.target = target,
                          !.trace = Append(@, [call |-> "reset", start |-> start,
                                               target |-> target,
                                               wind_speed |-> env.wind_speed])],
      rng |-> [g EXCEPT !.n = @ + 2]]

\* step(action): weather.update draws the change test (the change itself is
\* left out), the wind fluctuation and the turn of the wind
step_env(env, g, action) ==
  LET wind_speed == Max(0, Min(80, env.wind_speed + Draw(g.seed, g.n + 1) - 1))
      wind_direction == (env.wind_direction + Draw(g.seed, g.n + 2)) % DrawSpan
  IN [env |-> [env EXCEPT !.wind_speed = wind_speed,
                          !.wind_direction = wind_direction,
                          !.trace = Append(@, [call |-> action, start |-> env.start,
                                               target |-> env.target,
                                               wind_speed |-> wind_speed])],
      rng |-> [g EXCEPT !.n = @ + 3]]

SeedSpecInit == EnvIdle /\ CtlInit /\ AgentInit /\ SeedInit /\ DriverInit

\* CityEnvironment(seed = s)
Build ==
  /\ \E e \in EnvNames \ DOMAIN envs, s \in Seeds :
       /\ envs' = [x \in DOMAIN envs \cup {e} |-> IF x = e THEN build(s).env ELSE envs[x]]
       /\ rng' = build(s).rng
  /\ UNCHANGED <<env_vars, ctl_vars, agent_vars, driver_vars>>

\* reset() of one of the environments
ResetEnv ==
  /\ \E e \in DOMAIN envs :
       /\ envs[e].trace = <<>>
       /\ envs' = [envs EXCEPT ![e] = reset_env(envs[e], rng).env]
       /\ rng' = reset_env(envs[e], rng).rng
  /\ UNCHANGED <<env_vars, ctl_vars, agent_vars, driver_vars>>

\* step(action) of one of the environments
StepEnv ==
  /\ \E e \in DOMAIN envs, action \in {"HOVER", "MOVE_EAST"} :
       /\ envs[e].trace # <<>>
       /\ Len(envs[e].trace) < MaxCalls
       /\ envs' = [envs EXCEPT ![e] = step_env(envs[e], rng, action).env]
       /\ rng' = step_env(envs[e], rng, action).rng
  /\ UNCHANGED <<env_vars, ctl_vars, agent_vars, driver_vars>>

SeedNext == Build \/ ResetEnv \/ StepEnv

SpecSeed == SeedSpecInit /\ [][SeedNext]_vars

\* the calls made on an environment so far
CallsOf(env) == [i \in DOMAIN env.trace |-> env.trace[i].call]

\* C17: two environments built with the same seed have the same layout
\* and, as far as they were given the same calls, went through the same
\* states, whatever the order in which the calls on the two were made
C17_SameSeedSameRun ==
  \A e1, e2 \in DOMAIN envs :
    envs[e1].seed = envs[e2].seed =>
      /\ envs[e1].layout = envs[e2].layout
      /\ \A k \in DOMAIN envs[e1].trace \cap DOMAIN envs[e2].trace :
           SubSeq(CallsOf(envs[e1]), 1, k) = SubSeq(CallsOf(envs[e2]), 1, k)
             => envs[e1].trace[k] = envs[e2].trace[k]

(***************************************************************************)
(* Lookups in the value table, checked under SpecArbiter.                  *)
(***************************************************************************)
\* the table holds a value for the action under the key of the observation
Held(q, state, action) ==
  /\ get_state_key(state) \in DOMAIN q
  /\ action \in DOMAIN q[get_state_key(state)]

\* C21: the lookups of choose_action (greedy selection and get_q_value)
\* return normally, give 0 for every action the table holds no entry for,
\* and leave the table that a later save persists as it was: no state key
\* and no action entry is added
C21_LookupsLeaveTable ==
  [][IsDecision =>
       /\ ~decision'.raised
       /\ \A a \in Range(Actions) :
            ~Held(q_table, obs, a) => get_q_value(q_table, obs, a) = 0
       /\ \A a \in DOMAIN decision'.info.q_values :
            ~Held(q_table, obs, a) => decision'.info.q_values[a] = 0
       /\ q_table' = q_table]_vars

(***************************************************************************)
(* What step returns and accumulates, checked under Spec.                  *)
(***************************************************************************)
\* the keys every info mapping has to carry
RequiredInfo ==
  {"mission_id", "step", "position", "battery", "distance_to_target",
   "mission_status", "violations", "collisions", "interceptions",
   "storm_crashes", "payload_spoilages"}

\* C22: every return of step, those of the two pre-flight checks included,
\* carries an info mapping with mission id, step count, position, battery,
\* distance to target, mission status and the failure counters
C22_InfoComplete == [][IsStep => RequiredInfo \subseteq ret'.info]_vars

\* C23: the step call on which the step counter reaches the episode cap (and
\* any later one) returns done; when that call gets past the pre-flight
\* checks it ends the mission as failed_timeout with the collision penalty
\* as its reward
C23_TimeoutEnds ==
  [][(IsStep /\ current_step' >= MAX_STEPS_PER_EPISODE) =>
       /\ ret'.done
       /\ MoveAttempted =>
            /\ mission_status' = "failed_timeout"
            /\ ret'.reward = R(REWARD_COLLISION)]_vars

\* a mission that was in progress for all the steps before the cap has been
\* ended by the step that reached the cap
C23_Witness ==
  /\ ret.call = "step"
  /\ ret.before = "in_progress"
  /\ current_step = MAX_STEPS_PER_EPISODE
  /\ overrun = 0
  /\ ret.done
  /\ mission_status = "failed_timeout"
  /\ ret.reward = R(REWARD_COLLISION)

\* C24: whenever the mission status is success the vehicle is not crashed
\* and the collision, interception and storm-crash counters of the mission
\* are 0
C24_SuccessIsClean ==
  (drone # NoDrone /\ mission_status = "success") =>
    /\ ~drone.is_crashed
    /\ collisions = 0
    /\ interceptions = 0
    /\ storm_crashes = 0

\* C28: every step call adds the reward it returns to the mission's total
\* reward, so that after every step the total is the sum of the rewards
\* returned since the last reset (which sets it to 0)
C28_TotalIsSum ==
  [][(IsStep => total_reward' = total_reward + ret'.reward)
     /\ (ret'.call = "reset" => total_reward' = 0)]_vars

\* C29: while the driver has not stepped past a done, the vehicle holds the
\* cargo exactly when the mission status is not success
C29_CargoUntilSuccess ==
  (drone # NoDrone /\ overrun = 0) =>
    (drone.has_package <=> mission_status # "success")

\* the step takes the branch of city.py 202-205: move failed on a crashed
\* vehicle whose crash reason is not battery_depleted (whether move fails
\* that way depends neither on the action nor on the wind)
CollisionBranchTaken ==
  /\ MoveAttempted
  /\ \E m \in {move(update_payload_condition(drone, 1), "HOVER", <<0, 0>>)} :
       ~m.ok /\ m.drone.is_crashed /\ m.drone.crash_reason # "battery_depleted"

\* C30: after reset a crashed vehicle implies a terminal mission status; a
\* step of a driver that stops at done is never made with a crashed vehicle
\* and never takes the branch that turns a move failure into
\* failed_collision
C30_CrashedIsTerminal ==
  /\ []((drone # NoDrone /\ drone.is_crashed) => mission_status # "in_progress")
  /\ [][(IsStep /\ ~ret.done) => (~drone.is_crashed /\ ~CollisionBranchTaken)]_vars

\* a storm has crashed the vehicle on the second step of a mission, and the
\* step returned done with a terminal status
C30_Witness ==
  /\ drone # NoDrone
  /\ ret.call = "step"
  /\ overrun = 0
  /\ current_step = 2
  /\ drone.is_crashed
  /\ drone.crash_reason = "storm_damage"
  /\ ret.info = FullInfo
  /\ ret.done
  /\ mission_status # "in_progress"

(***************************************************************************)
(* A city smaller than the grid of the configuration: CityEnvironment is   *)
(* constructed with a grid_size below GRID_SIZE (test_environment.py       *)
(* builds a 20 x 20 city, GRID_SIZE is 50).                                *)
(***************************************************************************)
\* the grid size the environment is constructed with
SmallGrid == 2

\* hospital (1,0) h2 next to the lab (1,1) h2; the no-fly zone covers the
\* cell corner (0,1) only
CityC ==
  [grid_size |-> SmallGrid,
   height_map |-> HeightMap(SmallGrid, {<<1, 0, 2>>, <<1, 1, 2>>}),
   hospitals |-> {<<1, 0>>},
   labs |-> {<<1, 1>>},
   no_fly_zones |-> {<<0, 1, 0>>}]

\* CityEnvironment(grid_size = SmallGrid)
SmallCityInit ==
  /\ obstacles = CityC
  /\ weather \in UNION {update_weather_effects(c) : c \in InitialWeather}
  /\ drone = NoDrone
  /\ start_position = "None"
  /\ target_position = "None"
  /\ current_step = 0
  /\ mission_status = "in_progress"
  /\ total_reward = 0
  /\ violations = 0
  /\ collisions = 0
  /\ interceptions = 0
  /\ storm_crashes = 0
  /\ payload_spoilages = 0
  /\ ret = Returned("none", 0, FALSE, "None", {})
  /\ overrun = 0
  /\ CtlInit
  /\ AgentInit
  /\ SeedInit
  /\ DriverInit

SpecSmallCity == SmallCityInit /\ [][Next]_vars

\* C26: in an environment constructed with grid size N the vehicle's x and
\* y stay in [0, N-1] and its altitude in [0, MAX_ALTITUDE-1], whatever the
\* actions and the wind
C26_InsideGrid ==
  drone # NoDrone =>
    /\ 0 <= drone.position[1]
    /\ drone.position[1] <= HalfCell * (obstacles.grid_size - 1)
    /\ 0 <= drone.position[2]
    /\ drone.position[2] <= HalfCell * (obstacles.grid_size - 1)
    /\ 0 <= drone.position[3]
    /\ drone.position[3] <= MAX_ALTITUDE - 1

(***************************************************************************)
(* A flight under way.  The vehicle is picked up somewhere over the city   *)
(* with some of its battery left, the mission in progress; the step        *)
(* counter and the cargo clock count from that moment (with the caps of    *)
(* the configuration, 1000 steps and 1800 s, the vehicle gets to every     *)
(* cell of the city long before either matters).  The driver stops at      *)
(* done and keeps the action it handed to step.                            *)
(***************************************************************************)
\* where the vehicle is picked up: low over the open ground of the south-west
\* corner of CityA, and in the middle of the city
FlightPositions ==
  {<<0, 2 * HalfCell, 1>>, <<0, 2 * HalfCell, 2>>, <<HalfCell, HalfCell, 1>>}

FlightBattery == {4, BATTERY_CAPACITY}

\* reset, then a flight that neither crashed the vehicle nor ended the mission
FlightInit ==
  /\ obstacles = CityA
  /\ weather \in update_weather_effects("clear")
  /\ weather.wind_speed = WindLevels[1]
  /\ \E h \in {<<0, 0>>}, l \in obstacles.labs, p \in FlightPositions, b \in FlightBattery :
       LET start == <<h[1], h[2], get_min_safe_altitude(obstacles, HalfCell * h[1], HalfCell * h[2])>>
           target == <<l[1], l[2], get_min_safe_altitude(obstacles, HalfCell * l[1], HalfCell * l[2])>>
       IN /\ start_position = start
          /\ target_position = target
          /\ drone = [pickup_cargo(new_drone(start), "blood_sample")
                        EXCEPT !.position = p, !.battery = b]
  /\ current_step = 0
  /\ mission_status = "in_progress"
  /\ total_reward = 0
  /\ violations = 0
  /\ collisions = 0
  /\ interceptions = 0
  /\ storm_crashes = 0
  /\ payload_spoilages = 0
  /\ ret = Returned("reset", 0, FALSE, "None", {})
  /\ overrun = 0
  /\ CtlInit
  /\ AgentInit
  /\ SeedInit
  /\ DriverInit

\* the driver's loop body: step(action) while no step has returned done
Fly ==
  /\ ~ret.done
  /\ \E action \in Tokens :
       /\ StepWith(action)
       /\ handed' = action
  /\ UNCHANGED <<ctl_vars, agent_vars, seed_vars, learned>>

SpecFlight == FlightInit /\ [][Fly]_vars

\* a step call of the driver
IsFly == IsStep /\ handed' # "None"

\* the wind of the step does not displace the vehicle
ZeroWind == get_wind_effect(weather', <<1, 1>>) = <<0, 0>>

\* C25: in zero wind, a step of a mission in progress with an action that
\* is_action_safe reports safe on the observation before the step does not
\* end as failed_collision
C25_SafeActionNoCollision ==
  [][(/\ IsFly
      /\ mission_status = "in_progress"
      /\ ZeroWind
      /\ is_action_safe(get_state, handed').safe) =>
       mission_status' # "failed_collision"]_vars

\* the position after the action's own displacement and the wind's
Displaced(action) ==
  {move([update_payload_condition(drone, 1) EXCEPT !.is_charging = FALSE], action,
        get_wind_effect(weather', dir)).drone.position : dir \in DriftDirections(weather')}

\* C27: on an uncrashed vehicle with charge left, a step with CHARGE and
\* the battery below 100 raises the battery by the charging rate, clamped at
\* 100, and a step with a directional action moves the vehicle by the
\* action's displacement, whether or not an earlier step charged
C27_ChargeOneTick ==
  [][(IsFly /\ MoveAttempted /\ ~drone.is_crashed /\ drone.battery > 0) =>
       /\ (handed' = "CHARGE" /\ drone.battery < BATTERY_CAPACITY) =>
            drone'.battery = Min(BATTERY_CAPACITY, drone.battery + CHARGING_RATE)
       /\ handed' \in Lateral \cup {"MOVE_UP", "MOVE_DOWN"} =>
            drone'.position \in Displaced(handed')]_vars

(***************************************************************************)
(* QLearningAgent.update.  Rewards are handed to update in units of        *)
(* 1/QScale, like the Q-values; the float arithmetic of the code is done   *)
(* on these integers, every product rounded down.                          *)
(***************************************************************************)
\* LEARNING_RATE and DISCOUNT_FACTOR, in units of 1/QScale
learning_rate == QScale \div 10

discount_factor == (95 * QScale) \div 100

\* max(next_q_values.values()) if next_q_values else 0, on the row the table
\* holds under next_state_key
max_next_q(q, next_state_key) ==
  IF next_state_key \in DOMAIN q /\ DOMAIN q[next_state_key] # {}
  THEN CHOOSE v \in {q[next_state_key][a] : a \in DOMAIN q[next_state_key]} :
         \A a \in DOMAIN q[next_state_key] : q[next_state_key][a] <= v
  ELSE 0

\* the new value of the update rule
new_q(current_q, reward, max_next) ==
  current_q
    + (learning_rate * (reward + (discount_factor * max_next) \div QScale - current_q))
        \div QScale

\* QLearningAgent.update: the table afterwards.  The read of current_q
\* inserts the pair (state_key, action) with value 0 when the table does not
\* hold it, and the read of the row of next_state_key (made when done is
\* false) inserts an empty row; max_next_q is taken on the table after both
update(q, state, action, reward, next_state, done) ==
  LET state_key == get_state_key(state)
      next_state_key == get_state_key(next_state)
      read == q_touch(q, state_key, {action})
      current_q == read[state_key][action]
      looked == IF done THEN read ELSE q_touch(read, next_state_key, {})
      max_next == IF done THEN 0 ELSE max_next_q(looked, next_state_key)
  IN [looked EXCEPT ![state_key][action] = new_q(current_q, reward, max_next)]

\* the observations update is called with: the vehicle at altitude 2 east of
\* its target, with a battery of 60 % or 100 % (two state keys)
UpdateStates ==
  {o \in Observations :
     /\ o.position[3] = 2
     /\ o.battery \in {6, BATTERY_CAPACITY}
     /\ o.has_cargo
     /\ o.relative_target = <<2 * HalfCell, 0, 0>>
     /\ o.nearby_obstacles = 0
     /\ ~o.in_no_fly_zone
     /\ o.building_height = 0
     /\ o.neighbor_buildings["MOVE_NORTH"] = 0
     /\ ~o.neighbor_no_fly["MOVE_EAST"]
     /\ o.safe_to_fly}

\* the rewards: the time penalty and a tenth of the delivery reward
UpdateRewards == {REWARD_TIME_PENALTY * QScale, (REWARD_DELIVERY_SUCCESS * QScale) \div 10}

\* an empty table, and one that has learnt a loss for MOVE_EAST under the key
\* of the observation
UpdateTables(state) ==
  {[k \in {} |-> 0],
   [k \in {get_state_key(state)} |-> [a \in {"MOVE_EAST"} |-> 0 - QScale]]}

MaxUpdates == 2

UpdateInit ==
  /\ EnvIdle
  /\ rules = Rules
  /\ obs \in UpdateStates
  /\ q_table \in UpdateTables(obs)
  /\ epsilon = QScale
  /\ decisions_made = 0
  /\ safety_overrides = 0
  /\ logic_suggestions = 0
  /\ decision = NoDecision
  /\ AgentInit
  /\ SeedInit
  /\ DriverInit

\* q_agent.update(state, action, reward, next_state, done), then
\* state = next_state as the drivers do
Update ==
  /\ total_updates < MaxUpdates
  /\ \E action \in Range(Actions), reward \in UpdateRewards,
        next_state \in UpdateStates, done \in BOOLEAN :
       /\ q_table' = update(q_table, obs, action, reward, next_state, done)
       /\ learned' = [action |-> action, reward |-> reward, done |-> done]
       /\ obs' = next_state
  /\ total_updates' = total_updates + 1
  /\ UNCHANGED <<rules, epsilon, decisions_made, safety_overrides, logic_suggestions,
                 decision>>
  /\ UNCHANGED <<episodes_trained, file, load_ret, handed>>
  /\ UNCHANGED <<env_vars, seed_vars>>

SpecUpdate == UpdateInit /\ [][Update]_vars

\* a transition made by a call of update
IsUpdate == total_updates' = total_updates + 1

\* the pairs (state key, action) the table holds a value for
HeldPairs(q) == UNION {{<<k, a>> : a \in DOMAIN q[k]} : k \in DOMAIN q}

\* C35: update(s, a, r, s', done) replaces only the value stored for
\* (key(s), a), by Q + alpha * (r + gamma * m - Q) with Q the value the table
\* held for the pair (0 when it held none) and m = 0 when done or when the
\* table held no entry under key(s'), otherwise the largest value it held
\* under key(s'); every other stored value is kept, no other value is added,
\* and the update counter grows by exactly 1
C35_UpdateRule ==
  [][IsUpdate =>
       LET state_key == get_state_key(obs)
           a == learned'.action
           m == IF learned'.done THEN 0 ELSE max_next_q(q_table, get_state_key(obs'))
       IN /\ HeldPairs(q_table') = HeldPairs(q_table) \cup {<<state_key, a>>}
          /\ \A p \in HeldPairs(q_table) \ {<<state_key, a>>} :
               q_table'[p[1]][p[2]] = q_table[p[1]][p[2]]
          /\ q_table'[state_key][a] =
               new_q(q_read(q_table, state_key, a), learned'.reward, m)
          /\ total_updates' = total_updates + 1]_vars

(***************************************************************************)
(* The safe-action set and the arbiter's last resorts, checked under       *)
(* SpecArbiter.                                                            *)
(***************************************************************************)
\* C32: with the rules of a new engine and the 8 canonical actions, the
\* safe-action set of every observation holds HOVER and CHARGE, and
\* choose_action neither takes the emergency branch nor has its final check
\* replace the chosen action by "wait"
C32_NoEmergencyNoVeto ==
  /\ []((obs # NoObservation /\ rules = Rules) =>
          {"HOVER", "CHARGE"} \subseteq Range(get_valid_actions(obs, Actions)))
  /\ [][(IsDecision /\ rules = Rules) =>
          /\ ~decision'.raised
          /\ decision'.info.decision_type # "emergency"
          /\ ~decision'.info.has_violated_rules
          /\ decision'.action \notin {"wait", "emergency_land"}
          /\ safety_overrides' - safety_overrides =
               (IF decision'.info.decision_type = "safety_critical" THEN 1 ELSE 0)]_vars

\* a decision was made by a new engine on an observation that triggers
\* every built-in safety rule that can hold of a laden vehicle; only HOVER
\* and CHARGE were safe and HOVER was returned, unvetoed
C32_Witness ==
  /\ decision # NoDecision
  /\ rules = Rules
  /\ CriticalBattery
  /\ ~obs.safe_to_fly
  /\ obs.in_no_fly_zone
  /\ obs.nearby_obstacles > 0
  /\ obs.position[3] = 0
  /\ obs.has_cargo
  /\ get_valid_actions(obs, Actions) = <<"HOVER", "CHARGE">>
  /\ decision.action = "HOVER"
  /\ decision.info.decision_type = "safety_critical"
  /\ ~decision.info.has_violated_rules

\* candidate lists a caller may hand to get_valid_actions
CandidateLists ==
  {<<"MOVE_UP">>, <<"MOVE_UP", "MOVE_NORTH">>, <<"MOVE_NORTH", "wait">>, Actions}

\* is_action_safe rejects every action of the list
AllUnsafe(state, candidates) ==
  \A a \in Range(candidates) : ~is_action_safe(state, a).safe

\* C33: for a candidate list whose every action is unsafe on the
\* observation get_valid_actions returns the one-element list "wait", and
\* its result is non-empty for every candidate list
C33_WaitFallback ==
  obs # NoObservation =>
    \A candidates \in CandidateLists :
      /\ AllUnsafe(obs, candidates) => get_valid_actions(obs, candidates) = <<"wait">>
      /\ get_valid_actions(obs, candidates) # <<>>

(***************************************************************************)
(* The branch choose_action takes below the critical rules, checked under  *)
(* SpecArbiter.                                                            *)
(***************************************************************************)
\* Manhattan distance to the target after one unit step of the action, in
\* HalfCell units (the altitude difference counts HalfCell per level)
DistanceAfter(state, action) ==
  LET dx == state.relative_target[1]
      dy == state.relative_target[2]
      dz == state.relative_target[3]
  IN CASE action = "MOVE_NORTH" -> Abs(dx) + Abs(dy + HalfCell) + HalfCell * Abs(dz)
       [] action = "MOVE_SOUTH" -> Abs(dx) + Abs(dy - HalfCell) + HalfCell * Abs(dz)
       [] action = "MOVE_EAST" -> Abs(dx - HalfCell) + Abs(dy) + HalfCell * Abs(dz)
       [] action = "MOVE_WEST" -> Abs(dx + HalfCell) + Abs(dy) + HalfCell * Abs(dz)
       [] action = "MOVE_UP" -> Abs(dx) + Abs(dy) + HalfCell * Abs(dz - 1)
       [] action = "MOVE_DOWN" -> Abs(dx) + Abs(dy) + HalfCell * Abs(dz + 1)
       [] OTHER -> Abs(dx) + Abs(dy) + HalfCell * Abs(dz)

\* the first element of the list that minimises the measure
FirstMin(list, measure(_)) ==
  list[CHOOSE i \in DOMAIN list :
         /\ \A j \in DOMAIN list : measure(list[i]) <= measure(list[j])
         /\ \A j \in 1..(i - 1) : measure(list[j]) > measure(list[i])]

\* C36: when no SAFETY rule of priority >= 90 is triggered and the safe set
\* is not empty, choose_action returns, on the goal_oriented_heuristic
\* branch, the first safe action of least Manhattan distance after the step
\* if ((training and epsilon > 0.3) or the greedy action's value is below
\* 0.1) and some safe action gets strictly closer to the target; in every
\* other case it returns the greedy action of the safe set, the first of
\* the best in candidate order, on the hybrid_greedy branch
C36_HeuristicOrGreedy ==
  [][(/\ IsDecision
      /\ ~CriticalTriggered
      /\ get_valid_actions(obs, Actions) # <<>>) =>
       LET safe == get_valid_actions(obs, Actions)
           Value(a) == get_q_value(q_table, obs, a)
           NegValue(a) == 0 - Value(a)
           Dist(a) == DistanceAfter(obs, a)
           greedy == FirstMin(safe, NegValue)
           unsure == (decision'.training /\ 10 * epsilon > 3 * QScale)
                       \/ 10 * Value(greedy) < QScale
           closer == \E a \in Range(safe) : Dist(a) < DistanceAfter(obs, "HOVER")
       IN IF unsure /\ closer
          THEN /\ decision'.action = FirstMin(safe, Dist)
               /\ decision'.info.decision_type = "goal_oriented_heuristic"
          ELSE /\ decision'.action = greedy
               /\ decision'.info.decision_type = "hybrid_greedy"]_vars

\* a greedy call (training off, epsilon at its minimum) on a table without
\* a value for the observation took the heuristic and moved east towards
\* the target, two cells away
C36_Witness ==
  /\ decision # NoDecision
  /\ ~decision.training
  /\ epsilon < QScale
  /\ decision.info.decision_type = "goal_oriented_heuristic"
  /\ decision.action = "MOVE_EAST"
  /\ obs.relative_target = <<2 * HalfCell, 0, 0>>
  /\ get_q_value(q_table, obs, "MOVE_EAST") = 0

(***************************************************************************)
(* The storm counter, the payload clock and the start of a mission,        *)
(* checked under Spec.                                                     *)
(***************************************************************************)
Stormy(w) == w.condition \in {"storm", "thunderstorm"}

\* C37: a step that passes the pre-flight checks adds 1 to the storm
\* counter in storm or thunderstorm and sets it to 0 otherwise; when the
\* counter reaches the threshold the vehicle is crashed with reason
\* storm_damage and the step ends the mission as failed_storm
C37_StormCounter ==
  [][MoveAttempted =>
       /\ drone'.steps_in_storm =
            IF Stormy(weather') THEN drone.steps_in_storm + 1 ELSE 0
       /\ (Stormy(weather') /\ drone.steps_in_storm + 1 >= STORM_DAMAGE_THRESHOLD) =>
            /\ drone'.is_crashed
            /\ drone'.crash_reason = "storm_damage"
            /\ ret'.done
            /\ mission_status' = "failed_storm"]_vars

\* the condition of a payload picked up t ticks ago
ConditionAt(t) ==
  IF t >= PAYLOAD_MAX_TIME THEN "spoiled"
  ELSE IF t >= PAYLOAD_SPOILAGE_WARNING THEN "warning"
  ELSE "fresh"

Stage(payload_condition) ==
  CASE payload_condition = "fresh" -> 1
    [] payload_condition = "warning" -> 2
    [] payload_condition = "spoiled" -> 3
    [] OTHER -> 0

\* C38: a step advances the payload clock by one tick when the vehicle
\* holds cargo and leaves clock and condition alone when it does not; held
\* cargo is fresh below the warning time, warning from there to below the
\* maximum time and spoiled from the maximum time on, and from step to step
\* its condition never moves back
C38_PayloadClock ==
  /\ []((drone # NoDrone /\ drone.has_package) =>
          drone.payload_condition = ConditionAt(drone.time_since_pickup))
  /\ [][IsStep =>
          IF drone.has_package
          THEN /\ drone'.time_since_pickup = drone.time_since_pickup + 1
               /\ drone'.payload_condition = ConditionAt(drone'.time_since_pickup)
               /\ Stage(drone'.payload_condition) >= Stage(drone.payload_condition)
          ELSE /\ drone'.time_since_pickup = drone.time_since_pickup
               /\ drone'.payload_condition = drone.payload_condition]_vars

\* the cargo was delivered fresh on the second step, and a step made after
\* that left the clock at 2 and the condition fresh
C38_Witness ==
  /\ drone # NoDrone
  /\ ~drone.has_package
  /\ overrun = 1
  /\ current_step = 3
  /\ drone.time_since_pickup = 2
  /\ drone.payload_condition = "fresh"

\* C39: right after reset the vehicle is strictly above the building of its
\* cell and outside every no-fly zone, and a first step that leaves the
\* vehicle where it is ends neither as failed_collision nor as
\* failed_interception
C39_StartIsClear ==
  /\ []((drone # NoDrone /\ ret.call = "reset") =>
          /\ drone.position[3] >
               get_building_height(obstacles, drone.position[1], drone.position[2])
          /\ ~is_no_fly_zone(obstacles, drone.position[1], drone.position[2]))
  /\ [][(IsStep /\ ret.call = "reset" /\ drone'.position = drone.position) =>
          mission_status' \notin {"failed_collision", "failed_interception"}]_vars

(***************************************************************************)
(* Missions flown without storm or thunderstorm.  The weather update is    *)
(* restricted to the outcomes whose condition is neither of the two; the   *)
(* wind speed still fluctuates freely (weather.py 77-94).                  *)
(***************************************************************************)
CalmInit == Init /\ ~Stormy(weather)

CalmStep == Step /\ ~Stormy(weather')

CalmStepBeforeReset == StepBeforeReset /\ ~Stormy(weather')

CalmNext == Reset \/ CalmStep \/ CalmStepBeforeReset

SpecCalm == CalmInit /\ [][CalmNext]_vars

\* C40 as stated: if the weather condition is never storm or thunderstorm
\* during a mission, the mission never ends with FAILED_STORM.
C40_NoStormNoStormFailure == mission_status # "failed_storm"

\* C40, amended: if the weather condition is never storm or thunderstorm
\* during a mission, the storm counter stays 0 and the mission status becomes
\* FAILED_STORM only on a step stopped by the pre-flight extreme-weather
\* check, whose wind speed is at least EXTREME_WIND_SPEED and whose info
\* carries the reason extreme_weather.
C40_StormFailureOnlyByWind ==
  /\ [](drone # NoDrone => drone.steps_in_storm = 0)
  /\ [][(IsStep /\ mission_status' = "failed_storm" /\ mission_status # "failed_storm") =>
          /\ weather'.wind_speed >= EXTREME_WIND_SPEED
          /\ ret'.reason = "extreme_weather"
          /\ ret'.done
          /\ drone'.crash_reason = "storm_damage"]_vars

C40_Witness ==
  /\ drone # NoDrone
  /\ mission_status = "failed_storm"
  /\ ret.call = "step" /\ ret.reason = "extreme_weather"
  /\ weather.condition = "windy"
  /\ weather.wind_speed >= EXTREME_WIND_SPEED
  /\ drone.steps_in_storm = 0

(***************************************************************************)
(* The action the arbiter returns for the observations of a mission.       *)
(***************************************************************************)
\* C31: for every observation the environment produces while a mission is
\* in progress, choose_action (either mode, any exploration rate, any table)
\* returns one of the 8 canonical action tokens, never return_to_base, wait
\* or emergency_land.
C31_CanonicalAction ==
  (drone # NoDrone /\ ~ret.done /\ mission_status = "in_progress") =>
     /\ get_state.has_cargo
     /\ \A training \in BOOLEAN, eps \in Epsilons, q \in QTables(get_state) :
          choose_action(get_state, training, q, eps).action \in Range(Actions)

\* a mission in progress after a step, for whose observation the top
\* triggered rule recommends the token evade and the arbiter returns an
\* action of the safe branch
C31_Witness ==
  /\ drone # NoDrone /\ ~ret.done /\ mission_status = "in_progress"
  /\ ret.call = "step"
  /\ get_state.has_cargo
  /\ get_recommended_action(get_state)[1] = "evade"
  /\ choose_action(get_state, FALSE, q_table, epsilon).info.decision_type # "safety_critical"
  /\ choose_action(get_state, FALSE, q_table, epsilon).action \in Range(Actions)

(***************************************************************************)
(* The closed loop of environment and arbiter.  A driver resets the        *)
(* environment and then, until a step returns done, hands the observation  *)
(* to choose_action and the action it returns to step.  train_episode      *)
(* (hybrid_controller.py 276-310) chooses with training = True and calls   *)
(* update after every step; the demo loop (main.py 93-117) chooses with    *)
(* training = False and does not update.                                   *)
(***************************************************************************)
\* state = env.reset() of a driver, with the table and the exploration rate
\* the controller has at that time
LoopInit ==
  /\ obstacles \in Cities
  /\ weather \in UNION {update_weather_effects(c) : c \in InitialWeather}
  /\ \E h \in obstacles.hospitals, l \in obstacles.labs :
       LET start == <<h[1], h[2], get_min_safe_altitude(obstacles, HalfCell * h[1], HalfCell * h[2])>>
           target == <<l[1], l[2], get_min_safe_altitude(obstacles, HalfCell * l[1], HalfCell * l[2])>>
       IN /\ start_position = start
          /\ target_position = target
          /\ drone = pickup_cargo(new_drone(start), "blood_sample")
  /\ current_step = 0
  /\ mission_status = "in_progress"
  /\ total_reward = 0
  /\ violations = 0
  /\ collisions = 0
  /\ interceptions = 0
  /\ storm_crashes = 0
  /\ payload_spoilages = 0
  /\ ret = Returned("reset", 0, FALSE, "None", {})
  /\ overrun = 0
  /\ rules = Rules
  /\ obs = NoObservation
  /\ q_table \in QTables(get_state)
  /\ epsilon \in Epsilons
  /\ decisions_made = 0
  /\ safety_overrides = 0
  /\ logic_suggestions = 0
  /\ decision = NoDecision
  /\ AgentInit
  /\ SeedInit
  /\ DriverInit

\* one pass of the loop body: choose_action on the current observation,
\* env.step with the action it returned and, in train_episode, update
TickWith(training) ==
  /\ drone # NoDrone
  /\ ~ret.done
  /\ \E c \in {choose_action(get_state, training, q_table, epsilon)} :
       /\ obs' = get_state
       /\ decision' = [action |-> c.action, info |-> c.info,
                       training |-> training, raised |-> FALSE]
       /\ decisions_made' = decisions_made + 1
       /\ safety_overrides' = safety_overrides + c.overrides
       /\ logic_suggestions' = logic_suggestions + c.suggestions
       /\ StepWith(c.action)
       /\ handed' = c.action
       /\ IF training
          THEN /\ q_table' = update(c.q_table, get_state, c.action,
                                    (ret'.reward * QScale) \div RewardScale,
                                    get_state', ret'.done)
               /\ total_updates' = total_updates + 1
               /\ learned' = [action |-> c.action,
                              reward |-> (ret'.reward * QScale) \div RewardScale,
                              done |-> ret'.done]
          ELSE /\ q_table' = c.q_table
               /\ UNCHANGED <<total_updates, learned>>
  /\ UNCHANGED <<rules, epsilon, episodes_trained, file, load_ret, seed_vars>>

\* the loop body of train_episode (training) or of the demo loop
Tick == \E training \in BOOLEAN : TickWith(training)

SpecLoop == LoopInit /\ [][Tick]_vars

\* a pass of the loop body
IsTick == decisions_made' = decisions_made + 1

====
